---- MODULE Spec2Model ----
(***************************************************************************)
(* A model of cirq/ops/common_gates.py: the eigen-decomposed gate algebra  *)
(* (Rot11Gate, RotXGate, RotYGate, RotZGate, CNotGate, HGate, SwapGate),  *)
(* MeasurementGate and the free functions measure / measure_each; and of   *)
(* cirq/google/engine/engine.py: Engine.run_sweep, the label methods and   *)
(* EngineJob.  The service the engine talks to is the environment: each    *)
(* of its answers is a choice, and the requests a call sends are logged.   *)
(*                                                                         *)
(* Numbers.  Python floats are modelled by exact rationals n/d.  Matrix    *)
(* entries are modelled exactly in the ring Z[w], w = exp(i*pi/4), as the  *)
(* four integer coefficients of 1, w, w^2, w^3 (w^4 = -1, i = w^2,         *)
(* sqrt(2) = w - w^3).  Every matrix is stored multiplied by 2, so that    *)
(* the entries 0.5, 0.5j and sqrt(0.5) of the source are ring elements.    *)
(*                                                                         *)
(* Text.  A Python str is modelled as the sequence of its characters; the  *)
(* message of an exception as the sequence of its words.                   *)
(*                                                                         *)
(* The last part models two pure functions of docs/snippets_test.py,       *)
(* assert_expected_lines_present_in_order and find_expected_outputs: their *)
(* inputs are drawn by SnippetInit and each action applies one of them.    *)
(***************************************************************************)
EXTENDS Integers, Sequences, FiniteSets, TLC

VARIABLES gate, mgate, call, result, engine, job, requests, pc, polls

vars == <<gate, mgate, call, result, engine, job, requests, pc, polls>>

\* The variables of the engine client: the Engine, the EngineJob at hand,
\* the requests sent to the service by the call in progress or last made,
\* and the position of a results() call in its polling loop.
engineVars == <<engine, job, requests, pc, polls>>

(***************************************************************************)
(* Bounds of the model.                                                    *)
(***************************************************************************)
\* Largest denominator of an exponent the model follows (exponents are
\* dyadic rationals; a power that would leave this grid is not taken).
MaxDen == 16
\* Half turns and powers are drawn from the multiples of 1/4 between
\* -MaxQuarter/4 and MaxQuarter/4.
MaxQuarter == 8
\* Largest number of qubits passed to measure / measure_each / on_each /
\* validate_args.
MaxQubits == 2
\* Largest length of an invert_mask.
MaxMask == 2

\* Longest list of label keys passed to remove_program_labels and
\* remove_job_labels.
MaxLabelKeys == 2

\* Longest lists of expected and of actual lines passed to
\* assert_expected_lines_present_in_order.
MaxExpected == 2
MaxActual == 3
\* Largest number of lines of a snippet passed to find_expected_outputs.
MaxSnippetLines == 4

(***************************************************************************)
(* Exact rationals n/d (d > 0, lowest terms): the model of a float.        *)
(***************************************************************************)
Abs(n) == IF n < 0 THEN -n ELSE n

RECURSIVE GCD(_, _)
GCD(a, b) == IF b = 0 THEN a ELSE GCD(b, a % b)

Rat(n, d) ==
    LET g == GCD(Abs(n), d)
    IN  [n |-> n \div g, d |-> d \div g]

RatMul(x, y) == Rat(x.n * y.n, x.d * y.d)

RatAdd(x, y) == Rat(x.n * y.d + y.n * x.d, x.d * y.d)

RatAbs(x) == [n |-> Abs(x.n), d |-> x.d]

\* Python's x % p for a positive integer p: the result lies in [0, p).
RatMod(x, p) == Rat(x.n % (p * x.d), x.d)

(***************************************************************************)
(* The ring Z[w], w = exp(i*pi/4).                                         *)
(***************************************************************************)
CxZero == <<0, 0, 0, 0>>

CxAdd(a, b) == <<a[1] + b[1], a[2] + b[2], a[3] + b[3], a[4] + b[4]>>

CxNeg(a) == <<-a[1], -a[2], -a[3], -a[4]>>

CxMul(a, b) ==
    << a[1]*b[1] - a[2]*b[4] - a[3]*b[3] - a[4]*b[2],
       a[1]*b[2] + a[2]*b[1] - a[3]*b[4] - a[4]*b[3],
       a[1]*b[3] + a[2]*b[2] + a[3]*b[1] - a[4]*b[4],
       a[1]*b[4] + a[2]*b[3] + a[3]*b[2] + a[4]*b[1] >>

\* Complex conjugate: conj(w) = w^7 = -w^3.
CxConj(a) == <<a[1], -a[4], -a[3], -a[2]>>

\* w^k.
CxRoot(k) ==
    LET r == k % 8
        u == [i \in 1..4 |-> IF i = (r % 4) + 1 THEN 1 ELSE 0]
    IN  IF r < 4 THEN <<u[1], u[2], u[3], u[4]>>
        ELSE <<-u[1], -u[2], -u[3], -u[4]>>

\* The real integer k, the imaginary unit times k, sqrt(2).
CxInt(k) == <<k, 0, 0, 0>>

CxImag(k) == <<0, 0, k, 0>>

CxSqrt2 == <<0, 1, 0, -1>>

(***************************************************************************)
(* Square matrices over Z[w], as sequences of rows.                        *)
(***************************************************************************)
Dim(A) == Len(A)

RECURSIVE CxSum(_, _)
CxSum(f, n) == IF n = 0 THEN CxZero ELSE CxAdd(CxSum(f, n - 1), f[n])

MatMul(A, B) ==
    [i \in 1..Dim(A) |->
        [j \in 1..Dim(A) |->
            CxSum([k \in 1..Dim(A) |-> CxMul(A[i][k], B[k][j])], Dim(A))]]

MatAdd(A, B) ==
    [i \in 1..Dim(A) |-> [j \in 1..Dim(A) |-> CxAdd(A[i][j], B[i][j])]]

MatScale(c, A) ==
    [i \in 1..Dim(A) |-> [j \in 1..Dim(A) |-> CxMul(c, A[i][j])]]

\* Conjugate transpose.
Dagger(A) ==
    [i \in 1..Dim(A) |-> [j \in 1..Dim(A) |-> CxConj(A[j][i])]]

\* k times the identity matrix of dimension n.
ScaledIdentity(k, n) ==
    [i \in 1..n |-> [j \in 1..n |-> IF i = j THEN CxInt(k) ELSE CxZero]]

ZeroMatrix(n) == ScaledIdentity(0, n)

\* A stored matrix A stands for A/s.  A/s is unitary.
IsUnitary(A, s) == MatMul(A, Dagger(A)) = ScaledIdentity(s * s, Dim(A))

\* A and B are proportional: all 2x2 minors of the pair vanish.
Proportional(A, B) ==
    \A i, j, k, l \in 1..Dim(A) :
        CxMul(A[i][j], B[k][l]) = CxMul(A[k][l], B[i][j])

\* A/s equals B/t up to a global phase: both are unitary and proportional
\* (the factor between two proportional unitaries has modulus 1).
EqualUpToGlobalPhase(A, s, B, t) ==
    /\ Dim(A) = Dim(B)
    /\ IsUnitary(A, s)
    /\ IsUnitary(B, t)
    /\ Proportional(A, B)

(***************************************************************************)
(* Python values: str (a sequence of characters) and tuple.                *)
(***************************************************************************)
PyStr(chars) == [type |-> "str", value |-> chars]

PyTuple(items) == [type |-> "tuple", value |-> items]

None == [type |-> "NoneType"]

Digit(k) == <<"0", "1", "2", "3", "4", "5", "6", "7", "8", "9">>[k + 1]

RECURSIVE IntStr(_)
IntStr(k) == IF k < 10 THEN <<Digit(k)>> ELSE IntStr(k \div 10) \o <<Digit(k % 10)>>

RECURSIVE Log2(_)
Log2(d) == IF d <= 1 THEN 0 ELSE 1 + Log2(d \div 2)

RECURSIVE Pow10(_)
Pow10(k) == IF k = 0 THEN 1 ELSE 10 * Pow10(k - 1)

\* The k decimal digits of v, zero-padded on the left.
RECURSIVE FixedDigits(_, _)
FixedDigits(v, k) ==
    IF k = 0 THEN <<>> ELSE FixedDigits(v \div 10, k - 1) \o <<Digit(v % 10)>>

\* repr of the float n/d, d a power of two (the shortest decimal that reads
\* back as the float is then its exact decimal expansion): 1 -> "1.0",
\* 1/2 -> "0.5", -3/4 -> "-0.75".
FloatRepr(x) ==
    LET a == Abs(x.n)
        k == Log2(x.d)
        frac == IF x.d = 1 THEN <<"0">>
                ELSE FixedDigits(((a % x.d) * Pow10(k)) \div x.d, k)
    IN  (IF x.n < 0 THEN <<"-">> ELSE <<>>)
            \o IntStr(a \div x.d) \o <<".">> \o frac

(***************************************************************************)
(* EigenGate (cirq/ops/eigen_gate.py): a gate is its class and its         *)
(* exponent.  HGate and SwapGate carry no exponent.                        *)
(***************************************************************************)
EigenKinds == {"Rot11Gate", "RotXGate", "RotYGate", "RotZGate", "CNotGate"}

\* EigenGate.__init__(exponent): the exponent is stored as given.
EigenGate(kind, exponent) == [kind |-> kind, exponent |-> exponent]

\* half_turns: Union[Symbol, float] = 1.0, the default of every constructor.
DefaultHalfTurns == Rat(1, 1)

Rot11Gate(half_turns) == EigenGate("Rot11Gate", half_turns)

RotXGate(half_turns) == EigenGate("RotXGate", half_turns)

RotYGate(half_turns) == EigenGate("RotYGate", half_turns)

RotZGate(half_turns) == EigenGate("RotZGate", half_turns)

CNotGate(half_turns) == EigenGate("CNotGate", half_turns)

HGate == [kind |-> "HGate"]

SwapGate == [kind |-> "SwapGate"]

\* The half_turns property of the five eigen gates.
half_turns(g) == g.exponent

(***************************************************************************)
(* _eigen_components: (half-turn index, projector) pairs; each projector   *)
(* is stored multiplied by 2.                                              *)
(***************************************************************************)
Diag2(a, b) == << <<CxInt(a), CxZero>>, <<CxZero, CxInt(b)>> >>

Diag4(a, b, c, d) ==
    << <<CxInt(a), CxZero, CxZero, CxZero>>,
       <<CxZero, CxInt(b), CxZero, CxZero>>,
       <<CxZero, CxZero, CxInt(c), CxZero>>,
       <<CxZero, CxZero, CxZero, CxInt(d)>> >>

Rot11Gate_eigen_components ==
    << <<0, Diag4(2, 2, 2, 0)>>,
       <<1, Diag4(0, 0, 0, 2)>> >>

RotXGate_eigen_components ==
    << <<0, << <<CxInt(1), CxInt(1)>>, <<CxInt(1), CxInt(1)>> >> >>,
       <<1, << <<CxInt(1), CxInt(-1)>>, <<CxInt(-1), CxInt(1)>> >> >> >>

\* Variant: the lower-left entry of the second component keeps the sign of
\* the first component's.
RotYGate_eigen_components_same_sign ==
    << <<0, << <<CxInt(1), CxImag(-1)>>, <<CxImag(1), CxInt(1)>> >> >>,
       <<1, << <<CxInt(1), CxImag(1)>>, <<CxImag(1), CxInt(1)>> >> >> >>

RotYGate_eigen_components ==
    << <<0, << <<CxInt(1), CxImag(-1)>>, <<CxImag(1), CxInt(1)>> >> >>,
       <<1, << <<CxInt(1), CxImag(1)>>, <<CxImag(-1), CxInt(1)>> >> >> >>

RotZGate_eigen_components ==
    << <<0, Diag2(2, 0)>>,
       <<1, Diag2(0, 2)>> >>

CNotGate_eigen_components ==
    << <<0, << <<CxInt(2), CxZero, CxZero, CxZero>>,
               <<CxZero, CxInt(2), CxZero, CxZero>>,
               <<CxZero, CxZero, CxInt(1), CxInt(1)>>,
               <<CxZero, CxZero, CxInt(1), CxInt(1)>> >> >>,
       <<1, << <<CxZero, CxZero, CxZero, CxZero>>,
               <<CxZero, CxZero, CxZero, CxZero>>,
               <<CxZero, CxZero, CxInt(1), CxInt(-1)>>,
               <<CxZero, CxZero, CxInt(-1), CxInt(1)>> >> >> >>

\* self._eigen_components(), dispatched on the gate's class.
eigen_components(g) ==
    CASE g.kind = "Rot11Gate" -> Rot11Gate_eigen_components
      [] g.kind = "RotXGate" -> RotXGate_eigen_components
      [] g.kind = "RotYGate" -> RotYGate_eigen_components
      [] g.kind = "RotZGate" -> RotZGate_eigen_components
      [] g.kind = "CNotGate" -> CNotGate_eigen_components

(***************************************************************************)
(* _canonical_exponent_period: 2 for each of the five eigen gates.         *)
(***************************************************************************)
Rot11Gate_canonical_exponent_period == 2

\* Variant: the period counted in quarter turns.
RotXGate_canonical_exponent_period_quarters == 2 * 2

RotXGate_canonical_exponent_period == 2

RotYGate_canonical_exponent_period == 2

RotZGate_canonical_exponent_period == 2

CNotGate_canonical_exponent_period == 2

canonical_exponent_period(g) ==
    CASE g.kind = "Rot11Gate" -> Rot11Gate_canonical_exponent_period
      [] g.kind = "RotXGate" -> RotXGate_canonical_exponent_period
      [] g.kind = "RotYGate" -> RotYGate_canonical_exponent_period
      [] g.kind = "RotZGate" -> RotZGate_canonical_exponent_period
      [] g.kind = "CNotGate" -> CNotGate_canonical_exponent_period

\* _with_exponent: a new gate of the same class with the given half_turns.
with_exponent(g, exponent) ==
    CASE g.kind = "Rot11Gate" -> Rot11Gate(exponent)
      [] g.kind = "RotXGate" -> RotXGate(exponent)
      [] g.kind = "RotYGate" -> RotYGate(exponent)
      [] g.kind = "RotZGate" -> RotZGate(exponent)
      [] g.kind = "CNotGate" -> CNotGate(exponent)

(***************************************************************************)
(* The part of EigenGate that the repository keeps in eigen_gate.py.       *)
(***************************************************************************)
\* The exponent reduced modulo the canonical period, into [0, period).
canonical_exponent(g) == RatMod(g.exponent, canonical_exponent_period(g))

\* gate ** power: the stored exponent times the power, reduced modulo the
\* canonical period.
raise_to_power(g, power) ==
    with_exponent(g, RatMod(RatMul(g.exponent, power),
                            canonical_exponent_period(g)))

\* ==: same class and equal exponents after canonicalization.
EigenGate_eq(g, h) ==
    /\ g.kind = h.kind
    /\ canonical_exponent(g) = canonical_exponent(h)

\* hash: of the class and the canonical exponent.
EigenGate_hash(g) == <<g.kind, canonical_exponent(g)>>

\* matrix(): the sum of exp(i*pi*exponent*index) * projector over the eigen
\* components (stored multiplied by 2).  Exact in Z[w] when the exponent is
\* a multiple of 1/4.
OnMatrixGrid(g) == 4 % g.exponent.d = 0

RECURSIVE MatSum(_, _, _)
MatSum(f, n, dim) ==
    IF n = 0 THEN ZeroMatrix(dim) ELSE MatAdd(MatSum(f, n - 1, dim), f[n])

EigenGate_matrix(g) ==
    LET comps == eigen_components(g)
        q == g.exponent.n * (4 \div g.exponent.d)
    IN  MatSum([c \in 1..Len(comps) |->
                    MatScale(CxRoot(q * comps[c][1]), comps[c][2])],
               Len(comps), Dim(comps[1][2]))

\* Variant: the minus sign of the last entry is missing.
HGate_matrix_no_sign ==
    << <<CxSqrt2, CxSqrt2>>, <<CxSqrt2, CxSqrt2>> >>

\* s = math.sqrt(0.5); [[s, s], [s, -s]], times 2.
HGate_matrix ==
    << <<CxSqrt2, CxSqrt2>>, <<CxSqrt2, CxNeg(CxSqrt2)>> >>

SwapGate_matrix ==
    << <<CxInt(2), CxZero, CxZero, CxZero>>,
       <<CxZero, CxZero, CxInt(2), CxZero>>,
       <<CxZero, CxInt(2), CxZero, CxZero>>,
       <<CxZero, CxZero, CxZero, CxInt(2)>> >>

\* gate.matrix(), dispatched on the gate's class.
matrix(g) ==
    CASE g.kind = "HGate" -> HGate_matrix
      [] g.kind = "SwapGate" -> SwapGate_matrix
      [] OTHER -> EigenGate_matrix(g)

\* The module constants.
X == RotXGate(DefaultHalfTurns)

Y == RotYGate(DefaultHalfTurns)

Z == RotZGate(DefaultHalfTurns)

CZ == Rot11Gate(DefaultHalfTurns)

H == HGate

CNOT == CNotGate(DefaultHalfTurns)

SWAP == SwapGate

(***************************************************************************)
(* Qubits and operations (cirq/ops/raw_types.py).                          *)
(***************************************************************************)
\* NamedQubit(name); str(qubit) is its name.
NamedQubit(name) == [name |-> name]

str(q) == PyStr(q.name)

\* Operation(gate, qubits): a gate applied to a tuple of qubits.
Operation(g, qubits) == [gate |-> g, qubits |-> qubits]

\* gate.on(*qubits), also written gate(*qubits).
Gate_on(g, qubits) == Operation(g, qubits)

\* operation ** power: the same qubits, the gate raised to the power.
Operation_pow(op, power) == Operation(raise_to_power(op.gate, power), op.qubits)

(***************************************************************************)
(* text_diagram_wire_symbols and __repr__.                                 *)
(***************************************************************************)
RotZGate_text_diagram_wire_symbols(g) ==
    IF RatAbs(half_turns(g)) = Rat(1, 2) THEN PyStr(<<"S">>)
    ELSE IF RatAbs(half_turns(g)) = Rat(1, 4) THEN PyStr(<<"T">>)
    ELSE PyTuple(<< <<"Z">> >>)

SwapGate_text_diagram_wire_symbols(use_unicode_characters) ==
    IF ~use_unicode_characters
    THEN PyTuple(<< <<"s", "w", "a", "p">>, <<"s", "w", "a", "p">> >>)
    ELSE PyTuple(<< <<"×">>, <<"×">> >>)

text_diagram_wire_symbols(g, use_unicode_characters) ==
    CASE g.kind = "Rot11Gate" -> PyTuple(<< <<"@">>, <<"Z">> >>)
      [] g.kind = "RotXGate" -> PyTuple(<< <<"X">> >>)
      [] g.kind = "RotYGate" -> PyTuple(<< <<"Y">> >>)
      [] g.kind = "RotZGate" -> RotZGate_text_diagram_wire_symbols(g)
      [] g.kind = "HGate" -> PyTuple(<< <<"H">> >>)
      [] g.kind = "CNotGate" -> PyTuple(<< <<"@">>, <<"X">> >>)
      [] g.kind = "SwapGate" ->
            SwapGate_text_diagram_wire_symbols(use_unicode_characters)

\* name if half_turns == 1 else name + '**' + repr(half_turns).
PowerRepr(name, g) ==
    IF half_turns(g) = Rat(1, 1) THEN name
    ELSE name \o <<"*", "*">> \o FloatRepr(half_turns(g))

Rot11Gate_repr(g) == PowerRepr(<<"C", "Z">>, g)

RotXGate_repr(g) == PowerRepr(<<"X">>, g)

RotYGate_repr(g) == PowerRepr(<<"Y">>, g)

RotZGate_repr(g) ==
    IF half_turns(g) = Rat(1, 1) THEN <<"Z">>
    ELSE IF half_turns(g) = Rat(1, 2) THEN <<"Z">>
    ELSE <<"Z", "*", "*">> \o FloatRepr(half_turns(g))

\* Variant: the name of the controlled-Z gate.
CNotGate_repr_cz(g) == PowerRepr(<<"C", "Z">>, g)

CNotGate_repr(g) == PowerRepr(<<"C", "N", "O", "T">>, g)

repr(g) ==
    CASE g.kind = "Rot11Gate" -> PyStr(Rot11Gate_repr(g))
      [] g.kind = "RotXGate" -> PyStr(RotXGate_repr(g))
      [] g.kind = "RotYGate" -> PyStr(RotYGate_repr(g))
      [] g.kind = "RotZGate" -> PyStr(RotZGate_repr(g))
      [] g.kind = "HGate" -> PyStr(<<"H">>)
      [] g.kind = "CNotGate" -> PyStr(CNotGate_repr(g))
      [] g.kind = "SwapGate" -> PyStr(<<"S", "W", "A", "P">>)

(***************************************************************************)
(* default_decompose.                                                      *)
(***************************************************************************)
HGate_default_decompose(qubits) ==
    LET q == qubits[1]
    IN  << Operation_pow(Gate_on(Y, <<q>>), Rat(1, 2)),
           Gate_on(X, <<q>>) >>

\* Variant: the two Y rotations in the opposite order.
CNotGate_default_decompose_reversed(g, qubits) ==
    LET c == qubits[1]
        t == qubits[2]
    IN  << Operation_pow(Gate_on(Y, <<t>>), Rat(1, 2)),
           Gate_on(Rot11Gate(half_turns(g)), <<c, t>>),
           Operation_pow(Gate_on(Y, <<t>>), Rat(-1, 2)) >>

CNotGate_default_decompose(g, qubits) ==
    LET c == qubits[1]
        t == qubits[2]
    IN  << Operation_pow(Gate_on(Y, <<t>>), Rat(-1, 2)),
           Gate_on(Rot11Gate(half_turns(g)), <<c, t>>),
           Operation_pow(Gate_on(Y, <<t>>), Rat(1, 2)) >>

SwapGate_default_decompose(qubits) ==
    LET a == qubits[1]
        b == qubits[2]
    IN  << Gate_on(CNOT, <<a, b>>),
           Gate_on(CNOT, <<b, a>>),
           Gate_on(CNOT, <<a, b>>) >>

default_decompose(g, qubits) ==
    CASE g.kind = "HGate" -> HGate_default_decompose(qubits)
      [] g.kind = "CNotGate" -> CNotGate_default_decompose(g, qubits)
      [] g.kind = "SwapGate" -> SwapGate_default_decompose(qubits)

(***************************************************************************)
(* The matrix of a sequence of operations on a list of qubits (the first   *)
(* qubit is the most significant bit of a basis index).                    *)
(***************************************************************************)
RECURSIVE Pow2(_)
Pow2(k) == IF k = 0 THEN 1 ELSE 2 * Pow2(k - 1)

Position(q, qubits) == CHOOSE p \in 1..Len(qubits) : qubits[p] = q

\* Bit of the p-th of n qubits in basis index r (0-based).
Bit(r, p, n) == (r \div Pow2(n - p)) % 2

RECURSIVE SubIndex(_, _, _, _)
SubIndex(r, targets, qubits, j) ==
    IF j = 0 THEN 0
    ELSE 2 * SubIndex(r, targets, qubits, j - 1)
            + Bit(r, Position(targets[j], qubits), Len(qubits))

\* The operation's matrix (stored times 2) on the space of all the qubits.
operation_matrix(op, qubits) ==
    LET n == Len(qubits)
        U == matrix(op.gate)
        m == Len(op.qubits)
        others == {p \in 1..n : \A j \in 1..m : qubits[p] # op.qubits[j]}
    IN  [r \in 1..Pow2(n) |->
            [c \in 1..Pow2(n) |->
                IF \A p \in others : Bit(r - 1, p, n) = Bit(c - 1, p, n)
                THEN U[SubIndex(r - 1, op.qubits, qubits, m) + 1]
                      [SubIndex(c - 1, op.qubits, qubits, m) + 1]
                ELSE CxZero]]

\* The product of the operations' matrices, the first operation acting
\* first; a product of k operations is stored times 2^k.
RECURSIVE circuit_matrix(_, _)
circuit_matrix(ops, qubits) ==
    IF Len(ops) = 0 THEN ScaledIdentity(1, Pow2(Len(qubits)))
    ELSE MatMul(operation_matrix(ops[Len(ops)], qubits),
                circuit_matrix(SubSeq(ops, 1, Len(ops) - 1), qubits))

(***************************************************************************)
(* MeasurementGate, measure, measure_each.                                 *)
(***************************************************************************)
IsNone(v) == v.type = "NoneType"

MeasurementGate(key, invert_mask) ==
    [kind |-> "MeasurementGate", key |-> key, invert_mask |-> invert_mask]

\* Outcome of a call: returned normally, or raised.
Returned == [raised |-> "none"]

Raised(kind, message) == [raised |-> kind, message |-> message]

\* Variant: >= in place of >.
validate_args_ge(g, qubits) ==
    IF ~IsNone(g.invert_mask) /\ Len(g.invert_mask.value) >= Len(qubits)
    THEN Raised("ValueError", "len(invert_mask) > len(qubits)")
    ELSE Returned

validate_args(g, qubits) ==
    IF ~IsNone(g.invert_mask) /\ Len(g.invert_mask.value) > Len(qubits)
    THEN Raised("ValueError", "len(invert_mask) > len(qubits)")
    ELSE Returned

\* Variant: the gate applied to all the targets at once.
on_each_together(g, targets) == <<Gate_on(g, targets)>>

on_each(g, targets) ==
    [i \in 1..Len(targets) |-> Gate_on(g, <<targets[i]>>)]

\* Variant: __eq__ compares the keys only.
MeasurementGate_eq_key_only(g, other) ==
    IF other.kind # "MeasurementGate"
    THEN "NotImplemented"
    ELSE g.key = other.key

\* __eq__: NotImplemented for an operand of another type, else the
\* comparison of the keys and of the invert_masks.
MeasurementGate_eq(g, other) ==
    IF other.kind # "MeasurementGate"
    THEN "NotImplemented"
    ELSE g.key = other.key /\ g.invert_mask = other.invert_mask

\* self == other as Python evaluates it: when __eq__ (and the reflected
\* __eq__ of the other operand) answers NotImplemented, the comparison
\* is by identity, and the two operands are different objects.
PyEquals(g, other) ==
    IF other.kind # "MeasurementGate"
    THEN FALSE
    ELSE MeasurementGate_eq(g, other)

\* __ne__: not self == other.
MeasurementGate_ne(g, other) == ~PyEquals(g, other)

\* __hash__: the hash of the tuple (MeasurementGate, key, invert_mask); the
\* hashed tuple stands for its hash.
MeasurementGate_hash(g) == <<"MeasurementGate", g.key, g.invert_mask>>

\* sep.join(strs).
RECURSIVE Join(_, _)
Join(sep, strs) ==
    IF Len(strs) = 0 THEN <<>>
    ELSE IF Len(strs) = 1 THEN strs[1]
    ELSE Join(sep, SubSeq(strs, 1, Len(strs) - 1)) \o sep \o strs[Len(strs)]

\* Variant: "if not key" in place of "if key is None".
measure_falsy_key(qubits, key, invert_mask) ==
    LET k == IF IsNone(key) \/ key.value = <<>>
             THEN PyStr(Join(<<",">>, [i \in 1..Len(qubits) |-> str(qubits[i]).value]))
             ELSE key
    IN  Gate_on(MeasurementGate(k, invert_mask), qubits)

measure(qubits, key, invert_mask) ==
    LET k == IF IsNone(key)
             THEN PyStr(Join(<<",">>, [i \in 1..Len(qubits) |-> str(qubits[i]).value]))
             ELSE key
    IN  Gate_on(MeasurementGate(k, invert_mask), qubits)

\* The key functions passed to measure_each: str (the default), a function
\* that ignores the qubit, and a function that decorates the qubit's name.
KeyFuncs == {"str", "constant", "tagged"}

ApplyKeyFunc(key_func, q) ==
    CASE key_func = "str" -> str(q)
      [] key_func = "constant" -> PyStr(<<"k">>)
      [] key_func = "tagged" -> PyStr(<<"m", "_">> \o str(q).value)

\* Variant: key_func is ignored and str is used.
measure_each_str_key(qubits, key_func) ==
    [i \in 1..Len(qubits) |->
        Gate_on(MeasurementGate(str(qubits[i]), None), <<qubits[i]>>)]

measure_each(qubits, key_func) ==
    [i \in 1..Len(qubits) |->
        Gate_on(MeasurementGate(ApplyKeyFunc(key_func, qubits[i]), None),
                <<qubits[i]>>)]

MEASURE == MeasurementGate(None, None)

(***************************************************************************)
(* The engine client: str helpers, JobConfig, Engine.run_sweep.            *)
(***************************************************************************)
\* The truth value of None, of a str and of a list: None, '' and [] are
\* false.
Truthy(v) == ~IsNone(v) /\ v.value # <<>>

\* a or b.
Or(a, b) == IF Truthy(a) THEN a ELSE b

\* s.rfind(c): the highest 0-based index of the character c in s, or -1.
rfind(s, c) ==
    LET at == {i \in 1..Len(s) : s[i] = c}
    IN  IF at = {} THEN -1
        ELSE (CHOOSE i \in at : \A j \in at : j <= i) - 1

\* s[start:], start counted from 0.
SliceFrom(s, start) == SubSeq(s, start + 1, Len(s))

\* s.endswith(suffix).
endswith(s, suffix) ==
    /\ Len(s) >= Len(suffix)
    /\ SubSeq(s, Len(s) - Len(suffix) + 1, Len(s)) = suffix

\* s.find(sub): the lowest 0-based index at which sub occurs in s, or -1.
find(s, sub) ==
    LET at == {i \in 1..(Len(s) - Len(sub) + 1) :
                  SubSeq(s, i, i + Len(sub) - 1) = sub}
    IN  IF at = {} THEN -1
        ELSE (CHOOSE i \in at : \A j \in at : i <= j) - 1

\* s.split(sep)[0].
SplitHead(s, sep) ==
    IF find(s, sep) = -1 THEN s ELSE SubSeq(s, 1, find(s, sep))

ascii_lowercase ==
    {"a", "b", "c", "d", "e", "f", "g", "h", "i", "j", "k", "l", "m"}
        \cup {"n", "o", "p", "q", "r", "s", "t", "u", "v", "w", "x", "y", "z"}

ascii_uppercase ==
    {"A", "B", "C", "D", "E", "F", "G", "H", "I", "J", "K", "L", "M"}
        \cup {"N", "O", "P", "Q", "R", "S", "T", "U", "V", "W", "X", "Y", "Z"}

digits == {Digit(k) : k \in 0..9}

\* The character class [a-z0-9._/-] of gcs_prefix_pattern.
gcs_prefix_chars == ascii_lowercase \cup digits \cup {".", "_", "/", "-"}

\* gcs_prefix_pattern.match(s) for the pattern 'gs://[a-z0-9._/-]+': the
\* length of the match, which starts at the beginning of s and takes the
\* longest run of class characters after 'gs://'; -1 when there is no match.
gcs_prefix_pattern_match(s) ==
    LET run == {n \in 1..(Len(s) - 5) :
                   \A i \in 6..(5 + n) : s[i] \in gcs_prefix_chars}
    IN  IF /\ Len(s) >= 6
           /\ SubSeq(s, 1, 5) = <<"g", "s", ":", "/", "/">>
           /\ run # {}
        THEN 5 + (CHOOSE n \in run : \A k \in run : k <= n)
        ELSE -1

TERMINAL_STATES == {"SUCCESS", "FAILURE", "CANCELLED"}

\* The upper end of the accepted priorities.
PriorityLimit == 1000

\* The number of random characters of a generated program id.
ProgramIdLength == 6

JobConfig(project_id, program_id, job_id, gcs_prefix, gcs_program, gcs_results) ==
    [type |-> "JobConfig", project_id |-> project_id,
     program_id |-> program_id, job_id |-> job_id,
     gcs_prefix |-> gcs_prefix, gcs_program |-> gcs_program,
     gcs_results |-> gcs_results]

Engine(default_project_id, gcs_prefix) ==
    [type |-> "Engine", default_project_id |-> default_project_id,
     gcs_prefix |-> gcs_prefix]

\* EngineJob.__init__.
EngineJob(job_config, response) ==
    [type |-> "EngineJob",
     job_config |-> job_config,
     _job |-> response,
     job_resource_name |-> response.name,
     program_resource_name |->
         PyStr(SplitHead(response.name.value, <<"/", "j", "o", "b", "s">>)),
     _results |-> None]

\* A value returned by a call.
ReturnedValue(v) == [raised |-> "none", value |-> v]

\* Devices, circuits and schedules: a device is known by its name, and a
\* program by whether its operations fit the Foxtail grid.
Device(name) == [type |-> "Device", name |-> name]

UnconstrainedDevice == Device("UnconstrainedDevice")

Foxtail == Device("Foxtail")

Circuit(on_grid) == [type |-> "Circuit", on_grid |-> on_grid]

Schedule(device, on_grid) ==
    [type |-> "Schedule", device |-> device, on_grid |-> on_grid]

\* device.validate_circuit(program), device.validate_schedule(schedule):
\* UnconstrainedDevice accepts everything, Foxtail raises ValueError for
\* operations off its grid.
Device_validate(device, program) ==
    IF device = Foxtail /\ ~program.on_grid
    THEN Raised("ValueError", <<"Unsupported", "qubit">>)
    ELSE Returned

\* The messages of the exceptions run_sweep raises, as sequences of words.
NeedProjectId ==
    <<"Need", "a", "cloud", "project", "id", ".", "This", "engine", "has",
      "default_project_id=None", "and", "the", "given", "JobConfig", "has",
      "project_id=None", ".", "One", "or", "the", "other", "must", "be",
      "set", ".">>

BadGcsPrefix ==
    <<"gcs_prefix", "must", "be", "of", "the", "form", "\"gs://<bucket",
      "name", "and", "optional", "object", "prefix>/\"">>

NeedGcsLocations ==
    <<"Either", "gcs_prefix", "must", "be", "provided", "or", "both",
      "gcs_program", "and", "gcs_results", "are", "required", ".">>

BadPriority ==
    <<"priority", "must", "be", "between", "0", "and", "1000">>

DeviceWithSchedule ==
    <<"Device", "can", "not", "be", "provided", "when", "running", "a",
      "schedule", ".">>

UnexpectedProgram == <<"Unexpected", "program", "type", ".">>

\* Variant: the engine's default comes first.
effective_project_id_default_first(self, job_config) ==
    IF IsNone(self.default_project_id)
    THEN job_config.project_id
    ELSE self.default_project_id

\* The project id of a run: the job config's, or else the engine's default.
effective_project_id(self, job_config) ==
    IF IsNone(job_config.project_id)
    THEN self.default_project_id
    ELSE job_config.project_id

\* Variant: no '/' is appended.
effective_gcs_prefix_as_given(self, job_config, project_id) ==
    Or(job_config.gcs_prefix,
       Or(self.gcs_prefix,
          PyStr(<<"g", "s", ":", "/", "/", "g", "q", "e", "-">>
                    \o SliceFrom(project_id.value,
                                 rfind(project_id.value, ":") + 1)
                    \o <<"/">>)))

\* The gcs_prefix of a run: the job config's, or the engine's, or
\* 'gs://gqe-{}/' formatted with the project id after its last ':'; then a
\* '/' is appended to a prefix that does not end with one.
effective_gcs_prefix(self, job_config, project_id) ==
    LET implied ==
            PyStr(<<"g", "s", ":", "/", "/", "g", "q", "e", "-">>
                      \o SliceFrom(project_id.value,
                                   rfind(project_id.value, ":") + 1)
                      \o <<"/">>)
        gcs_prefix == Or(job_config.gcs_prefix, Or(self.gcs_prefix, implied))
    IN  IF Truthy(gcs_prefix) /\ ~endswith(gcs_prefix.value, <<"/">>)
        THEN PyStr(gcs_prefix.value \o <<"/">>)
        ELSE gcs_prefix

\* The program id of a run: the job config's, or 'prog-' and the characters
\* drawn by random.choice.
effective_program_id(job_config, rand) ==
    Or(job_config.program_id, PyStr(<<"p", "r", "o", "g", "-">> \o rand))

effective_job_id(job_config) ==
    Or(job_config.job_id, PyStr(<<"j", "o", "b", "-", "0">>))

\* Variant: '%sprograms/%s' % (gcs_prefix, program_id).
effective_gcs_program_short(job_config, gcs_prefix, program_id) ==
    Or(job_config.gcs_program,
       PyStr(gcs_prefix.value \o <<"p", "r", "o", "g", "r", "a", "m", "s", "/">>
                 \o program_id.value))

\* '%sprograms/%s/%s' % (gcs_prefix, program_id, program_id)
effective_gcs_program(job_config, gcs_prefix, program_id) ==
    Or(job_config.gcs_program,
       PyStr(gcs_prefix.value \o <<"p", "r", "o", "g", "r", "a", "m", "s", "/">>
                 \o program_id.value \o <<"/">> \o program_id.value))

\* '%sprograms/%s/jobs/%s' % (gcs_prefix, program_id, job_id)
effective_gcs_results(job_config, gcs_prefix, program_id, job_id) ==
    Or(job_config.gcs_results,
       PyStr(gcs_prefix.value \o <<"p", "r", "o", "g", "r", "a", "m", "s", "/">>
                 \o program_id.value \o <<"/", "j", "o", "b", "s", "/">>
                 \o job_id.value))

\* The check of the priority: 0 <= priority < 1000.
priority_accepted(priority) == 0 <= priority /\ priority < PriorityLimit

\* The check of the program and of the device: the schedule to run, or the
\* exception raised.
program_schedule(program, device) ==
    IF program.type = "Circuit"
    THEN LET d == IF IsNone(device) THEN UnconstrainedDevice ELSE device
         IN  IF Device_validate(d, program).raised # "none"
             THEN Device_validate(d, program)
             ELSE ReturnedValue(Schedule(d, program.on_grid))
    ELSE IF program.type = "Schedule"
    THEN IF ~IsNone(device)
         THEN Raised("TypeError", DeviceWithSchedule)
         ELSE ReturnedValue(program)
    ELSE Raised("TypeError", UnexpectedProgram)

\* The log of the requests a call sends to the service, in the order sent;
\* a request repeated in a row is written once, with the number of times.
Send(log, request) ==
    IF Len(log) > 0 /\ log[Len(log)].request = request
    THEN [log EXCEPT ![Len(log)].times = @ + 1]
    ELSE Append(log, [request |-> request, times |-> 1])

\* A request logged with the answer the service gave to it.
SendAnswered(log, request, response) ==
    Append(log, [request |-> request, times |-> 1, response |-> response])

\* The requests of run_sweep to the service.
CreateProgram(project_id, program_id, gcs_program) ==
    [method |-> "programs.create",
     parent |-> PyStr(<<"p", "r", "o", "j", "e", "c", "t", "s", "/">>
                          \o project_id.value),
     body |-> [name |-> PyStr(<<"p", "r", "o", "j", "e", "c", "t", "s", "/">>
                                  \o project_id.value
                                  \o <<"/", "p", "r", "o", "g", "r", "a", "m",
                                        "s", "/">>
                                  \o program_id.value),
               gcs_code_location |-> gcs_program]]

\* Variant: the job is named '<program name>/<job_id>'.
CreateJob_flat(program_name, job_id, gcs_results, priority) ==
    [method |-> "jobs.create",
     parent |-> program_name,
     body |-> [name |-> PyStr(program_name.value \o <<"/">> \o job_id.value),
               gcs_results_location |-> gcs_results,
               priority |-> priority]]

CreateJob(program_name, job_id, gcs_results, priority) ==
    [method |-> "jobs.create",
     parent |-> program_name,
     body |-> [name |-> PyStr(program_name.value
                                  \o <<"/", "j", "o", "b", "s", "/">>
                                  \o job_id.value),
               gcs_results_location |-> gcs_results,
               priority |-> priority]]

\* The service's answers to the two create requests: the resource is named
\* as the request asks, or as the service chooses; a job is answered with
\* its execution state.
programs_create_response(request, service) ==
    [name |-> IF service.echo THEN request.body.name
              ELSE PyStr(<<"p", "r", "o", "j", "e", "c", "t", "s", "/", "s", "/">>
                         \o <<"p", "r", "o", "g", "r", "a", "m", "s", "/", "t">>)]

jobs_create_response(request, service) ==
    [name |-> IF service.echo THEN request.body.name
              ELSE PyStr(<<"p", "r", "o", "j", "e", "c", "t", "s", "/", "s", "/">>
                         \o <<"p", "r", "o", "g", "r", "a", "m", "s", "/", "t">>
                         \o <<"/", "j", "o", "b", "s", "/", "u">>),
     state |-> service.state]

\* Variant: the program-create request is sent before the check fails.
Failed_after_create(exception) ==
    [outcome |-> exception,
     requests |-> Send(<<>>, [method |-> "programs.create"]),
     job |-> None]

\* What a call of run_sweep does: the outcome, the requests sent and the
\* EngineJob built.
Failed(exception) == [outcome |-> exception, requests |-> <<>>, job |-> None]

\* run_sweep(program, job_config, device, priority=priority).  rand is the
\* string drawn for the program id, service the way the service answers.
run_sweep(self, program, job_config_arg, device, priority, rand, service) ==
    LET job_config == IF IsNone(job_config_arg)
                      THEN JobConfig(None, None, None, None, None, None)
                      ELSE job_config_arg
        project_id == effective_project_id(self, job_config)
        gcs_prefix == effective_gcs_prefix(self, job_config, project_id)
        program_id == effective_program_id(job_config, rand)
        job_id == effective_job_id(job_config)
        gcs_program == effective_gcs_program(job_config, gcs_prefix, program_id)
        gcs_results ==
            effective_gcs_results(job_config, gcs_prefix, program_id, job_id)
        schedule == program_schedule(program, device)
        create_program == CreateProgram(project_id, program_id, gcs_program)
        program_response == programs_create_response(create_program, service)
        create_job ==
            CreateJob(program_response.name, job_id, gcs_results, priority)
    IN  IF IsNone(project_id)
        THEN Failed(Raised("ValueError", NeedProjectId))
        ELSE IF Truthy(gcs_prefix)
                /\ gcs_prefix_pattern_match(gcs_prefix.value) = -1
        THEN Failed(Raised("TypeError", BadGcsPrefix))
        ELSE IF ~Truthy(gcs_prefix)
                /\ (~Truthy(job_config.gcs_program)
                    \/ ~Truthy(job_config.gcs_results))
        THEN Failed(Raised("TypeError", NeedGcsLocations))
        ELSE IF ~priority_accepted(priority)
        THEN Failed(Raised("TypeError", BadPriority))
        ELSE IF schedule.raised # "none"
        THEN Failed(schedule)
        ELSE IF Device_validate(schedule.value.device, schedule.value).raised
                # "none"
        THEN Failed(Device_validate(schedule.value.device, schedule.value))
        ELSE LET job_response == jobs_create_response(create_job, service)
                 new_job ==
                     EngineJob(JobConfig(project_id, program_id, job_id,
                                         gcs_prefix, gcs_program, gcs_results),
                               job_response)
             IN  [outcome |-> ReturnedValue(new_job),
                  requests |->
                      SendAnswered(SendAnswered(<<>>, create_program,
                                                program_response),
                                   create_job, job_response),
                  job |-> new_job]

(***************************************************************************)
(* EngineJob: _update_job, status, cancel, results; Engine.get_job_results. *)
(***************************************************************************)
\* The number of times results() looks at the job's state before it stops
\* waiting.
PollLimit == 1000

\* The requests of an EngineJob to the service.
GetJob(name) == [method |-> "jobs.get", name |-> name]

GetJobResult(name) == [method |-> "jobs.getResult", parent |-> name]

CancelJob(name) == [method |-> "jobs.cancel", name |-> name]

PyList(items) == [type |-> "list", value |-> items]

\* Variant: the job is fetched again whatever its stored state.
update_job_always(self, log, state) ==
    [job |-> [self EXCEPT !._job = [name |-> self.job_resource_name,
                                    state |-> state]],
     requests |-> Send(log, GetJob(self.job_resource_name))]

\* _update_job: a job whose stored state is not terminal is fetched again;
\* state is the execution state the service answers with.
update_job(self, log, state) ==
    IF self._job.state \notin TERMINAL_STATES
    THEN [job |-> [self EXCEPT !._job = [name |-> self.job_resource_name,
                                         state |-> state]],
          requests |-> Send(log, GetJob(self.job_resource_name))]
    ELSE [job |-> self, requests |-> log]

\* The trial results get_job_results builds from the service's response:
\* one for each parameterized result of each sweep result, in order.
RECURSIVE trial_results(_)
trial_results(sweepResults) ==
    IF sweepResults = <<>> THEN <<>>
    ELSE LET sweep_result == Head(sweepResults)
         IN  [i \in 1..Len(sweep_result.parameterizedResults) |->
                 [type |-> "EngineTrialResult",
                  params |-> sweep_result.parameterizedResults[i],
                  repetitions |-> sweep_result.repetitions]]
             \o trial_results(Tail(sweepResults))

\* 'Job %s did not succeed. It is in state %s.' % (name, state)
DidNotSucceed(name, state) ==
    <<"Job">> \o name.value
        \o <<"did", "not", "succeed", ".", "It", "is", "in", "state", state,
             ".">>

\* Variant: the results are fetched whatever the state.
results_finish_any_state(self, log, sweepResults) ==
    [outcome |-> ReturnedValue(PyList(trial_results(sweepResults))),
     job |-> [self EXCEPT !._results = PyList(trial_results(sweepResults))],
     requests |-> Send(log, GetJobResult(self.job_resource_name))]

\* The end of results(), after the polling loop: RuntimeError unless the
\* state is SUCCESS, else the results are fetched, stored and returned.
results_finish(self, log, sweepResults) ==
    IF self._job.state # "SUCCESS"
    THEN [outcome |-> Raised("RuntimeError",
                             DidNotSucceed(self._job.name, self._job.state)),
          job |-> self,
          requests |-> log]
    ELSE [outcome |-> ReturnedValue(PyList(trial_results(sweepResults))),
          job |-> [self EXCEPT !._results = PyList(trial_results(sweepResults))],
          requests |-> Send(log, GetJobResult(self.job_resource_name))]

(***************************************************************************)
(* Engine: the labels of programs and jobs.  A dict is a function from its *)
(* keys; a fetched resource is a dict that may lack 'labels' and           *)
(* 'labelFingerprint'.                                                     *)
(***************************************************************************)
EmptyDict == [k \in {} |-> ""]

\* d.get(key, default).
dict_get(d, key, default) == IF key \in DOMAIN d THEN d[key] ELSE default

\* d.copy() followed by update(other).
dict_update(d, other) ==
    [k \in DOMAIN d \cup DOMAIN other |->
        IF k \in DOMAIN other THEN other[k] ELSE d[k]]

\* d.copy() followed by pop(key, None) for each key of the list.
dict_pop_each(d, keys) ==
    [k \in DOMAIN d \ {keys[i] : i \in 1..Len(keys)} |-> d[k]]

GetProgram(name) == [method |-> "programs.get", name |-> name]

PatchLabels(method, name, labels, fingerprint) ==
    [method |-> method,
     name |-> name,
     body |-> [name |-> name, labels |-> labels,
               labelFingerprint |-> fingerprint],
     updateMask |-> "labels"]

_set_program_labels(log, program_resource_name, labels, fingerprint) ==
    Send(log, PatchLabels("programs.patch", program_resource_name, labels,
                          fingerprint))

\* Each label method below gives the log of the requests it sends; fetched
\* is the resource the service answers the get with.
\* Variant: the patch carries the empty fingerprint.
set_program_labels_blank(program_resource_name, labels, fetched) ==
    _set_program_labels(Send(<<>>, GetProgram(program_resource_name)),
                        program_resource_name, labels, "")

set_program_labels(program_resource_name, labels, fetched) ==
    _set_program_labels(Send(<<>>, GetProgram(program_resource_name)),
                        program_resource_name, labels,
                        dict_get(fetched, "labelFingerprint", ""))

\* Variant: the patch is sent whether or not the labels change.
add_program_labels_always(program_resource_name, labels, fetched) ==
    _set_program_labels(Send(<<>>, GetProgram(program_resource_name)),
                        program_resource_name,
                        dict_update(dict_get(fetched, "labels", EmptyDict),
                                    labels),
                        dict_get(fetched, "labelFingerprint", ""))

add_program_labels(program_resource_name, labels, fetched) ==
    LET log == Send(<<>>, GetProgram(program_resource_name))
        old_labels == dict_get(fetched, "labels", EmptyDict)
        new_labels == dict_update(old_labels, labels)
    IN  IF new_labels # old_labels
        THEN _set_program_labels(log, program_resource_name, new_labels,
                                 dict_get(fetched, "labelFingerprint", ""))
        ELSE log

remove_program_labels(program_resource_name, label_keys, fetched) ==
    LET log == Send(<<>>, GetProgram(program_resource_name))
        old_labels == dict_get(fetched, "labels", EmptyDict)
        new_labels == dict_pop_each(old_labels, label_keys)
    IN  IF new_labels # old_labels
        THEN _set_program_labels(log, program_resource_name, new_labels,
                                 dict_get(fetched, "labelFingerprint", ""))
        ELSE log

_set_job_labels(log, job_resource_name, labels, fingerprint) ==
    Send(log, PatchLabels("jobs.patch", job_resource_name, labels,
                          fingerprint))

set_job_labels(job_resource_name, labels, fetched) ==
    _set_job_labels(Send(<<>>, GetJob(job_resource_name)),
                    job_resource_name, labels,
                    dict_get(fetched, "labelFingerprint", ""))

add_job_labels(job_resource_name, labels, fetched) ==
    LET log == Send(<<>>, GetJob(job_resource_name))
        old_labels == dict_get(fetched, "labels", EmptyDict)
        new_labels == dict_update(old_labels, labels)
    IN  IF new_labels # old_labels
        THEN _set_job_labels(log, job_resource_name, new_labels,
                             dict_get(fetched, "labelFingerprint", ""))
        ELSE log

remove_job_labels(job_resource_name, label_keys, fetched) ==
    LET log == Send(<<>>, GetJob(job_resource_name))
        old_labels == dict_get(fetched, "labels", EmptyDict)
        new_labels == dict_pop_each(old_labels, label_keys)
    IN  IF new_labels # old_labels
        THEN _set_job_labels(log, job_resource_name, new_labels,
                             dict_get(fetched, "labelFingerprint", ""))
        ELSE log

(***************************************************************************)
(* Inputs.                                                                 *)
(***************************************************************************)
\* Exponents: the multiples of 1/4 in [-MaxQuarter/4, MaxQuarter/4].
Exponents == {Rat(n, 4) : n \in -MaxQuarter..MaxQuarter}

Qubits == {NamedQubit(<<"a">>), NamedQubit(<<"q", "1">>)}

RECURSIVE SeqsUpTo(_, _)
SeqsUpTo(S, n) ==
    IF n = 0 THEN {<<>>}
    ELSE LET shorter == SeqsUpTo(S, n - 1)
         IN  shorter \cup {Append(t, x) : t \in shorter, x \in S}

QubitLists == SeqsUpTo(Qubits, MaxQubits)

\* Lists of distinct qubits, as default_decompose receives them.
DistinctQubitLists(n) ==
    {qs \in SeqsUpTo(Qubits, n) :
        Len(qs) = n /\ \A i, j \in 1..n : i # j => qs[i] # qs[j]}

Keys == {None, PyStr(<<>>), PyStr(<<"a", ",", "q", "1">>)}

\* invert_mask: None, or a tuple of up to MaxMask booleans (all equal, or
\* alternating).
InvertMasks ==
    {None}
        \cup {PyTuple([i \in 1..n |-> b]) : n \in 0..MaxMask, b \in BOOLEAN}
        \cup {PyTuple([i \in 1..n |-> i % 2 = 1]) : n \in 2..MaxMask}

\* The engines: with and without a default project id, and with no default
\* gcs_prefix, a malformed one and a well-formed one without final slash.
DefaultProjectIds == {None, PyStr(<<"j">>)}

EnginePrefixes == {None, PyStr(<<"b", "a", "d">>), PyStr(<<"g", "s", ":", "/", "/", "d">>)}

\* The job configs: None, and every JobConfig whose fields are None or the
\* values below ('' is a gcs_prefix that is given and false; 'gs://e/X y'
\* has an uppercase letter and a space after a well-formed start).
JobConfigs ==
    {None} \cup
    {JobConfig(project_id, program_id, job_id, gcs_prefix, gcs_program,
               gcs_results) :
        project_id \in {None, PyStr(<<"o", ":", "j">>)},
        program_id \in {None, PyStr(<<"g">>)},
        job_id \in {None, PyStr(<<"c">>)},
        gcs_prefix \in {None, PyStr(<<>>), PyStr(<<"b", "a", "d", "_", "p">>),
                        PyStr(<<"g", "s", ":", "/", "/", "e", "/">>),
                        PyStr(<<"g", "s", ":", "/", "/", "e", "/", "X", " ", "y">>)},
        gcs_program \in {None, PyStr(<<"e">>)},
        gcs_results \in {None, PyStr(<<"f">>)}}

Priorities == {-1, 0, PriorityLimit - 1, PriorityLimit}

Programs ==
    {Circuit(TRUE), Circuit(FALSE), Schedule(UnconstrainedDevice, TRUE),
     Schedule(Foxtail, FALSE), PyStr(<<"x">>)}

Devices == {None, UnconstrainedDevice, Foxtail}

\* Strings that random.choice can draw for a program id.
RandomIds ==
    {[i \in 1..ProgramIdLength |-> IF i % 2 = 1 THEN "A" ELSE c] :
        c \in {"Z", "9"}}

JobStates == {"READY", "RUNNING"} \cup TERMINAL_STATES

\* The job the model follows through status(), cancel() and results().
AJobConfig ==
    JobConfig(PyStr(<<"j">>), PyStr(<<"g">>), PyStr(<<"c">>),
              PyStr(<<"g", "s", ":", "/", "/", "d", "/">>), PyStr(<<"e">>), PyStr(<<"f">>))

AJobName == PyStr(<<"p", "/", "j", "/", "p", "r", "o", "g", "r", "a", "m", "s", "/", "g", "/", "j", "o", "b", "s", "/", "c">>)

\* The sweepResults of the service's responses to getResult: none, one
\* sweep with one or two parameterized results, two sweeps.
SweepResults ==
    {<<>>,
     <<[repetitions |-> 1, parameterizedResults |-> <<1>>]>>,
     <<[repetitions |-> 1, parameterizedResults |-> <<1, 2>>]>>,
     <<[repetitions |-> 1, parameterizedResults |-> <<1>>],
       [repetitions |-> 2, parameterizedResults |-> <<2>>]>>}

AProgramName == PyStr(<<"p", "/", "j", "/", "p", "r", "o", "g", "r", "a", "m", "s", "/", "g">>)

\* Label dicts: every assignment of the values '1', '2' to some of the keys
\* 'a', 'b'.
LabelKeys == {"a", "b"}

LabelValues == {"1", "2"}

LabelDicts == UNION {[K -> LabelValues] : K \in SUBSET LabelKeys}

\* Lists of keys to remove, repeats included.
LabelKeyLists == SeqsUpTo(LabelKeys, MaxLabelKeys)

\* The resources the service answers a get with: with or without labels,
\* with or without fingerprint.
Resources ==
    {labels @@ fingerprint :
        labels \in {EmptyDict} \cup {"labels" :> d : d \in LabelDicts},
        fingerprint \in {EmptyDict, "labelFingerprint" :> "abcdef"}}

(***************************************************************************)
(* State: the gate and the measurement gate at hand, the last call and     *)
(* what it returned; an engine without defaults, no job, nothing sent.     *)
(***************************************************************************)
Init ==
    /\ gate = X
    /\ mgate = MEASURE
    /\ call = [op |-> "import"]
    /\ result = None
    /\ engine = Engine(None, None)
    /\ job = None
    /\ requests = <<>>
    /\ pc = "idle"
    /\ polls = 0

(***************************************************************************)
(* The gate algebra.                                                       *)
(***************************************************************************)
\* A gate constructor is called, or one of H, SWAP is taken.
NewGate ==
    /\ \/ \E k \in EigenKinds, h \in Exponents \cup {DefaultHalfTurns} :
            gate' = with_exponent([kind |-> k], h)
       \/ gate' \in {H, SWAP}
    /\ call' = [op |-> "new"]
    /\ result' = None
    /\ UNCHANGED <<mgate, engineVars>>

\* gate ** power.
RaiseToPower ==
    /\ gate.kind \in EigenKinds
    /\ \E power \in Exponents :
        /\ RatMul(gate.exponent, power).d <= MaxDen
        /\ gate' = raise_to_power(gate, power)
        /\ call' = [op |-> "pow", self |-> gate, power |-> power]
        /\ result' = gate'
    /\ UNCHANGED <<mgate, engineVars>>

\* gate == other.
Equals ==
    /\ gate.kind \in EigenKinds
    /\ \E k \in EigenKinds, h \in Exponents :
        LET other == with_exponent([kind |-> k], h)
        IN  /\ call' = [op |-> "eq", other |-> other]
            /\ result' = EigenGate_eq(gate, other)
    /\ UNCHANGED <<gate, mgate, engineVars>>

\* gate._eigen_components().
EigenComponents ==
    /\ gate.kind \in EigenKinds
    /\ call' = [op |-> "_eigen_components"]
    /\ result' = eigen_components(gate)
    /\ UNCHANGED <<gate, mgate, engineVars>>

\* gate.matrix().
Matrix ==
    /\ gate.kind \in EigenKinds => OnMatrixGrid(gate)
    /\ call' = [op |-> "matrix"]
    /\ result' = matrix(gate)
    /\ UNCHANGED <<gate, mgate, engineVars>>

\* gate.default_decompose(qubits), for the composite gates.
Decompose ==
    /\ gate.kind \in {"HGate", "CNotGate", "SwapGate"}
    /\ gate.kind = "CNotGate" => OnMatrixGrid(gate)
    /\ \E qubits \in DistinctQubitLists(IF gate.kind = "HGate" THEN 1 ELSE 2) :
        /\ call' = [op |-> "default_decompose", qubits |-> qubits]
        /\ result' = default_decompose(gate, qubits)
    /\ UNCHANGED <<gate, mgate, engineVars>>

\* gate.text_diagram_wire_symbols(use_unicode_characters=...).
WireSymbols ==
    /\ \E u \in BOOLEAN :
        /\ call' = [op |-> "text_diagram_wire_symbols",
                    use_unicode_characters |-> u]
        /\ result' = text_diagram_wire_symbols(gate, u)
    /\ UNCHANGED <<gate, mgate, engineVars>>

\* repr(gate).
Repr ==
    /\ call' = [op |-> "repr"]
    /\ result' = repr(gate)
    /\ UNCHANGED <<gate, mgate, engineVars>>

GateNext ==
    \/ NewGate
    \/ RaiseToPower
    \/ Equals
    \/ EigenComponents
    \/ Matrix
    \/ Decompose
    \/ WireSymbols
    \/ Repr

GateSpec == Init /\ [][GateNext]_vars

(***************************************************************************)
(* Measurement.                                                            *)
(***************************************************************************)
\* MeasurementGate(key, invert_mask).
NewMeasurementGate ==
    /\ \E key \in Keys, invert_mask \in InvertMasks :
        mgate' = MeasurementGate(key, invert_mask)
    /\ call' = [op |-> "new"]
    /\ result' = None
    /\ UNCHANGED <<gate, engineVars>>

\* mgate.validate_args(qubits).
ValidateArgs ==
    /\ \E qubits \in QubitLists :
        /\ call' = [op |-> "validate_args", self |-> mgate, qubits |-> qubits]
        /\ result' = validate_args(mgate, qubits)
    /\ UNCHANGED <<gate, mgate, engineVars>>

\* mgate.on_each(targets).
OnEach ==
    /\ \E targets \in QubitLists :
        /\ call' = [op |-> "on_each", targets |-> targets]
        /\ result' = on_each(mgate, targets)
    /\ UNCHANGED <<gate, mgate, engineVars>>

\* measure(*qubits, key=..., invert_mask=...).
Measure ==
    /\ \E qubits \in QubitLists, key \in Keys, invert_mask \in InvertMasks :
        /\ call' = [op |-> "measure", qubits |-> qubits, key |-> key,
                    invert_mask |-> invert_mask]
        /\ result' = measure(qubits, key, invert_mask)
    /\ UNCHANGED <<gate, mgate, engineVars>>

\* measure_each(*qubits, key_func=...).
MeasureEach ==
    /\ \E qubits \in QubitLists, key_func \in KeyFuncs :
        /\ call' = [op |-> "measure_each", qubits |-> qubits,
                    key_func |-> key_func]
        /\ result' = measure_each(qubits, key_func)
    /\ UNCHANGED <<gate, mgate, engineVars>>

\* mgate == other, mgate != other, hash(mgate), hash(other); other is a
\* MeasurementGate or the gate X.
MeasureEquals ==
    /\ \E other \in {MeasurementGate(k, m) : k \in Keys, m \in InvertMasks}
                        \cup {X} :
        /\ call' = [op |-> "__eq__", self |-> mgate, other |-> other]
        /\ result' = [eq |-> MeasurementGate_eq(mgate, other),
                      ne |-> MeasurementGate_ne(mgate, other),
                      hash_self |-> MeasurementGate_hash(mgate),
                      hash_other |-> IF other.kind = "MeasurementGate"
                                     THEN MeasurementGate_hash(other)
                                     ELSE EigenGate_hash(other)]
    /\ UNCHANGED <<gate, mgate, engineVars>>

MeasureNext ==
    \/ NewMeasurementGate
    \/ MeasureEquals
    \/ ValidateArgs
    \/ OnEach
    \/ Measure
    \/ MeasureEach

MeasureSpec == Init /\ [][MeasureNext]_vars

(***************************************************************************)
(* Engine.run_sweep.                                                       *)
(***************************************************************************)
\* Engine(api_key, default_project_id=..., gcs_prefix=...).
NewEngine ==
    /\ pc = "idle"
    /\ \E default_project_id \in DefaultProjectIds,
          gcs_prefix \in EnginePrefixes :
        engine' = Engine(default_project_id, gcs_prefix)
    /\ call' = [op |-> "Engine"]
    /\ result' = None
    /\ job' = None
    /\ requests' = <<>>
    /\ UNCHANGED <<gate, mgate, pc, polls>>

\* job = engine.run_sweep(program, job_config, device, priority=priority);
\* job is None after a call that raised.  run_sweep assigns no attribute of
\* the engine, so the model follows one call on each engine constructed.
RunSweep ==
    /\ pc = "idle"
    /\ call.op = "Engine"
    /\ \E program \in Programs, job_config \in JobConfigs, device \in Devices,
          priority \in Priorities, rand \in RandomIds, echo \in BOOLEAN :
        LET done == run_sweep(engine, program, job_config, device, priority,
                              rand, [echo |-> echo, state |-> "READY"])
        IN  /\ call' = [op |-> "run_sweep", self |-> engine,
                        program |-> program, job_config |-> job_config,
                        device |-> device, priority |-> priority]
            /\ result' = done.outcome
            /\ requests' = done.requests
            /\ job' = done.job
    /\ UNCHANGED <<gate, mgate, engine, pc, polls>>

EngineNext ==
    \/ NewEngine
    \/ RunSweep

EngineSpec == Init /\ [][EngineNext]_vars

(***************************************************************************)
(* EngineJob.                                                              *)
(***************************************************************************)
\* EngineJob(job_config, job, engine), as run_sweep builds it from the
\* service's answer to the job-create request.
NewJob ==
    /\ pc = "idle"
    /\ \E state \in JobStates :
        job' = EngineJob(AJobConfig, [name |-> AJobName, state |-> state])
    /\ call' = [op |-> "EngineJob"]
    /\ result' = None
    /\ requests' = <<>>
    /\ UNCHANGED <<gate, mgate, engine, pc, polls>>

\* job.status().
Status ==
    /\ pc = "idle"
    /\ ~IsNone(job)
    /\ \E state \in JobStates :
        LET updated == update_job(job, <<>>, state)
        IN  /\ job' = updated.job
            /\ requests' = updated.requests
            /\ result' = ReturnedValue(updated.job._job.state)
    /\ call' = [op |-> "status", self |-> job]
    /\ UNCHANGED <<gate, mgate, engine, pc, polls>>

\* job.cancel().
Cancel ==
    /\ pc = "idle"
    /\ ~IsNone(job)
    /\ requests' = Send(<<>>, CancelJob(job.job_resource_name))
    /\ call' = [op |-> "cancel", self |-> job]
    /\ result' = ReturnedValue(None)
    /\ UNCHANGED <<gate, mgate, engine, job, pc, polls>>

\* job.results() is called: stored results are returned at once; otherwise
\* the job is updated and the polling loop is entered.
ResultsBegin ==
    /\ pc = "idle"
    /\ ~IsNone(job)
    /\ call' = [op |-> "results", self |-> job]
    /\ IF Truthy(job._results)
       THEN /\ result' = ReturnedValue(job._results)
            /\ requests' = <<>>
            /\ UNCHANGED <<job, pc, polls>>
       ELSE \E state \in JobStates :
                LET updated == update_job(job, <<>>, state)
                IN  /\ job' = updated.job
                    /\ requests' = updated.requests
                    /\ result' = [raised |-> "pending"]
                    /\ pc' = "polling"
                    /\ polls' = 0
    /\ UNCHANGED <<gate, mgate, engine>>

\* Variant: a polling loop without the limit of range(1000).
ResultsPoll_unlimited ==
    /\ pc = "polling"
    /\ job._job.state \notin TERMINAL_STATES
    /\ \E state \in JobStates :
        LET updated == update_job(job, requests, state)
        IN  /\ job' = updated.job
            /\ requests' = updated.requests
    /\ polls' = polls + 1
    /\ UNCHANGED <<gate, mgate, call, result, engine, pc>>

\* One turn of the polling loop that finds the job in a state that is not
\* terminal: sleep, then update the job.
ResultsPoll ==
    /\ pc = "polling"
    /\ polls < PollLimit
    /\ job._job.state \notin TERMINAL_STATES
    /\ \E state \in JobStates :
        LET updated == update_job(job, requests, state)
        IN  /\ job' = updated.job
            /\ requests' = updated.requests
    /\ polls' = polls + 1
    /\ UNCHANGED <<gate, mgate, call, result, engine, pc>>

\* The loop ends, by break on a terminal state or because range(1000) is
\* used up, and results() raises or fetches the results.
ResultsFinish ==
    /\ pc = "polling"
    /\ polls = PollLimit \/ job._job.state \in TERMINAL_STATES
    /\ \E sweepResults \in SweepResults :
        LET done == results_finish(job, requests, sweepResults)
        IN  /\ job' = done.job
            /\ requests' = done.requests
            /\ result' = done.outcome
    /\ pc' = "idle"
    /\ polls' = 0
    /\ UNCHANGED <<gate, mgate, call, engine>>

JobNext ==
    \/ NewJob
    \/ Status
    \/ Cancel
    \/ ResultsBegin
    \/ ResultsPoll
    \/ ResultsFinish

JobSpec == Init /\ [][JobNext]_vars

(***************************************************************************)
(* Labels.                                                                 *)
(***************************************************************************)
\* engine.set_program_labels(name, labels).
SetProgramLabels ==
    /\ pc = "idle"
    /\ \E labels \in LabelDicts, fetched \in Resources :
        /\ call' = [op |-> "set_labels", name |-> AProgramName,
                    labels |-> labels, fetched |-> fetched]
        /\ requests' = set_program_labels(AProgramName, labels, fetched)
    /\ result' = ReturnedValue(None)
    /\ UNCHANGED <<gate, mgate, engine, job, pc, polls>>

\* engine.add_program_labels(name, labels).
AddProgramLabels ==
    /\ pc = "idle"
    /\ \E labels \in LabelDicts, fetched \in Resources :
        /\ call' = [op |-> "add_labels", name |-> AProgramName,
                    labels |-> labels, fetched |-> fetched]
        /\ requests' = add_program_labels(AProgramName, labels, fetched)
    /\ result' = ReturnedValue(None)
    /\ UNCHANGED <<gate, mgate, engine, job, pc, polls>>

\* engine.remove_program_labels(name, label_keys).
RemoveProgramLabels ==
    /\ pc = "idle"
    /\ \E label_keys \in LabelKeyLists, fetched \in Resources :
        /\ call' = [op |-> "remove_labels", name |-> AProgramName,
                    label_keys |-> label_keys, fetched |-> fetched]
        /\ requests' = remove_program_labels(AProgramName, label_keys, fetched)
    /\ result' = ReturnedValue(None)
    /\ UNCHANGED <<gate, mgate, engine, job, pc, polls>>

\* engine.set_job_labels(name, labels).
SetJobLabels ==
    /\ pc = "idle"
    /\ \E labels \in LabelDicts, fetched \in Resources :
        /\ call' = [op |-> "set_labels", name |-> AJobName,
                    labels |-> labels, fetched |-> fetched]
        /\ requests' = set_job_labels(AJobName, labels, fetched)
    /\ result' = ReturnedValue(None)
    /\ UNCHANGED <<gate, mgate, engine, job, pc, polls>>

\* engine.add_job_labels(name, labels).
AddJobLabels ==
    /\ pc = "idle"
    /\ \E labels \in LabelDicts, fetched \in Resources :
        /\ call' = [op |-> "add_labels", name |-> AJobName,
                    labels |-> labels, fetched |-> fetched]
        /\ requests' = add_job_labels(AJobName, labels, fetched)
    /\ result' = ReturnedValue(None)
    /\ UNCHANGED <<gate, mgate, engine, job, pc, polls>>

\* engine.remove_job_labels(name, label_keys).
RemoveJobLabels ==
    /\ pc = "idle"
    /\ \E label_keys \in LabelKeyLists, fetched \in Resources :
        /\ call' = [op |-> "remove_labels", name |-> AJobName,
                    label_keys |-> label_keys, fetched |-> fetched]
        /\ requests' = remove_job_labels(AJobName, label_keys, fetched)
    /\ result' = ReturnedValue(None)
    /\ UNCHANGED <<gate, mgate, engine, job, pc, polls>>

LabelNext ==
    \/ SetProgramLabels
    \/ AddProgramLabels
    \/ RemoveProgramLabels
    \/ SetJobLabels
    \/ AddJobLabels
    \/ RemoveJobLabels

LabelSpec == Init /\ [][LabelNext]_vars

(***************************************************************************)
(* docs/snippets_test.py: canonicalize_printed_line,                       *)
(* assert_expected_lines_present_in_order, find_expected_outputs.  A line  *)
(* is the sequence of its characters, a snippet a str with '\n' between    *)
(* its lines.                                                              *)
(***************************************************************************)
\* The characters str.strip and str.rstrip remove.
Whitespace == {" ", "\t", "\n", "\r"}

\* s.rstrip().
RECURSIVE rstrip(_)
rstrip(s) ==
    IF s # <<>> /\ s[Len(s)] \in Whitespace
    THEN rstrip(SubSeq(s, 1, Len(s) - 1))
    ELSE s

\* s.lstrip().
RECURSIVE lstrip(_)
lstrip(s) ==
    IF s # <<>> /\ s[1] \in Whitespace THEN lstrip(Tail(s)) ELSE s

\* s.strip().
strip(s) == lstrip(rstrip(s))

\* s.startswith(prefix).
startswith(s, prefix) ==
    /\ Len(s) >= Len(prefix)
    /\ SubSeq(s, 1, Len(prefix)) = prefix

\* s.split(sep), sep not empty.
RECURSIVE split(_, _)
split(s, sep) ==
    IF find(s, sep) = -1 THEN <<s>>
    ELSE <<SubSeq(s, 1, find(s, sep))>>
             \o split(SliceFrom(s, find(s, sep) + Len(sep)), sep)

\* Variant: the line as it is.
canonicalize_printed_line_as_is(line) == line

\* canonicalize_printed_line, for a line without '[': re.finditer finds no
\* bracketed chunk, result is [line[0:]], and ''.join(result).rstrip() is
\* returned.
canonicalize_printed_line(line) == rstrip(Join(<<>>, <<SliceFrom(line, 0)>>))

\* 'Missing expected line: {}'.format(expected)
MissingExpectedLine(expected) ==
    <<"M", "i", "s", "s", "i", "n", "g", " ", "e", "x", "p", "e", "c", "t", "e", "d", " ", "l", "i", "n", "e", ":", " ">> \o expected

\* while i < len(actual_lines) and actual_lines[i] != expected: i += 1
RECURSIVE skip_to(_, _, _)
skip_to(actual_lines, i, expected) ==
    IF i < Len(actual_lines) /\ actual_lines[i + 1] # expected
    THEN skip_to(actual_lines, i + 1, expected)
    ELSE i

\* for expected in expected_lines, from the k-th expected line on, with the
\* index i into the actual lines.
RECURSIVE for_expected(_, _, _, _)
for_expected(expected_lines, actual_lines, k, i) ==
    IF k > Len(expected_lines) THEN Returned
    ELSE LET found == skip_to(actual_lines, i, expected_lines[k])
         IN  IF found >= Len(actual_lines)
             THEN Raised("AssertionError",
                         MissingExpectedLine(expected_lines[k]))
             ELSE for_expected(expected_lines, actual_lines, k + 1, found + 1)

assert_expected_lines_present_in_order(expected_lines, actual_lines) ==
    for_expected(
        [k \in 1..Len(expected_lines) |->
            canonicalize_printed_line(expected_lines[k])],
        [k \in 1..Len(actual_lines) |->
            canonicalize_printed_line(actual_lines[k])],
        1, 0)

start_key == <<"#", " ", "p", "r", "i", "n", "t", "s">>

continue_key == <<"#", " ">>

\* The loop of find_expected_outputs over the lines that are left.
RECURSIVE for_line(_, _, _)
for_line(lines, printing, expected) ==
    IF lines = <<>> THEN expected
    ELSE LET line == Head(lines)
         IN  IF printing
             THEN IF startswith(line, continue_key)
                        \/ line = strip(continue_key)
                  THEN for_line(Tail(lines), TRUE,
                                Append(expected,
                                       PyStr(SliceFrom(line,
                                                       Len(continue_key)))))
                  ELSE for_line(Tail(lines), FALSE, expected)
             ELSE IF startswith(line, start_key)
                  THEN for_line(Tail(lines),
                                strip(SliceFrom(line, Len(start_key))) = <<>>,
                                expected)
                  ELSE for_line(Tail(lines), FALSE, expected)

\* Variant: every line after '# prints' is recorded as expected output.
find_expected_outputs_to_end(snippet) ==
    LET lines == split(snippet, <<"\n">>)
        starts == {i \in 1..Len(lines) : startswith(lines[i], start_key)}
    IN  ReturnedValue(PyList(
            IF starts = {} THEN <<>>
            ELSE [k \in 1..(Len(lines) - (CHOOSE i \in starts :
                                             \A j \in starts : i <= j)) |->
                     PyStr(SliceFrom(
                         lines[k + (CHOOSE i \in starts :
                                       \A j \in starts : i <= j)],
                         Len(continue_key)))]))

find_expected_outputs(snippet) ==
    ReturnedValue(PyList(for_line(split(snippet, <<"\n">>), FALSE, <<>>)))

\* The printed lines of the model: with and without trailing whitespace,
\* with leading whitespace.
PrintedLines ==
    {<<"a">>,
     <<"a", " ">>,
     <<" ", "a">>,
     <<"b">>}

\* The lines of a snippet: '# prints' alone, with trailing whitespace, with
\* a word after it; expected output with and without indentation; '#'
\* alone; code; a comment without the space.
SnippetLines ==
    {<<"#", " ", "p", "r", "i", "n", "t", "s">>,
     <<"#", " ", "p", "r", "i", "n", "t", "s", " ">>,
     <<"#", " ", "p", "r", "i", "n", "t", "s", " ", "x">>,
     <<"#", " ", "a">>,
     <<"#", " ", " ", "a">>,
     <<"#">>,
     <<"a">>,
     <<"#", "a">>}

Snippets ==
    {Join(<<"\n">>, lines) : lines \in SeqsUpTo(SnippetLines, MaxSnippetLines)}

\* The arguments of the call to come.
SnippetInputs ==
    {[op |-> "lines", expected_lines |-> e, actual_lines |-> a] :
        e \in SeqsUpTo(PrintedLines, MaxExpected),
        a \in SeqsUpTo(PrintedLines, MaxActual)}
    \cup {[op |-> "snippet", snippet |-> s] : s \in Snippets}

SnippetInit ==
    /\ gate = X
    /\ mgate = MEASURE
    /\ call \in SnippetInputs
    /\ result = None
    /\ engine = Engine(None, None)
    /\ job = None
    /\ requests = <<>>
    /\ pc = "idle"
    /\ polls = 0

\* assert_expected_lines_present_in_order(expected_lines, actual_lines).
AssertExpectedLinesPresentInOrder ==
    /\ call.op = "lines"
    /\ call' = [call EXCEPT
                   !.op = "assert_expected_lines_present_in_order"]
    /\ result' = assert_expected_lines_present_in_order(call.expected_lines,
                                                        call.actual_lines)
    /\ UNCHANGED <<gate, mgate, engineVars>>

\* find_expected_outputs(snippet).
FindExpectedOutputs ==
    /\ call.op = "snippet"
    /\ call' = [call EXCEPT !.op = "find_expected_outputs"]
    /\ result' = find_expected_outputs(call.snippet)
    /\ UNCHANGED <<gate, mgate, engineVars>>

SnippetNext ==
    \/ AssertExpectedLinesPresentInOrder
    \/ FindExpectedOutputs

SnippetSpec == SnippetInit /\ [][SnippetNext]_vars

(***************************************************************************)
(* Properties.                                                             *)
(***************************************************************************)
Two == Rat(2, 1)

\* C1 (as stated): for every gate with canonical period 2 and every power
\* e, gate ** (e + 2) equals gate ** e and has the same hash.
C1_PeriodShiftAnyGate ==
    call.op = "pow" =>
        LET shifted == raise_to_power(call.self, RatAdd(call.power, Two))
        IN  /\ canonical_exponent_period(call.self) = 2
            /\ EigenGate_eq(shifted, result)
            /\ EigenGate_hash(shifted) = EigenGate_hash(result)

\* C1 (amended): for every gate whose stored exponent is a whole number of
\* half turns (such as X, Y, Z, CZ, CNOT) the canonical period is 2, and for
\* every power e, gate ** (e + 2) equals gate ** e and has the same hash.
C1_PeriodShiftWholeGate ==
    (call.op = "pow" /\ call.self.exponent.d = 1) =>
        LET shifted == raise_to_power(call.self, RatAdd(call.power, Two))
        IN  /\ canonical_exponent_period(call.self) = 2
            /\ EigenGate_eq(shifted, result)
            /\ EigenGate_hash(shifted) = EigenGate_hash(result)

\* CNOT ** -0.75 was taken; the shifted power 1.25 wraps around the period.
C1_Witness ==
    /\ call.op = "pow"
    /\ call.self = CNOT
    /\ call.power = Rat(-3, 4)
    /\ result = CNotGate(Rat(5, 4))

\* C2: for H, CNOT (at any half_turns) and SWAP the product of the matrices
\* of the operations default_decompose yields, applied in the yielded
\* order, equals the gate's matrix up to a global phase.
C2_DecompositionEquivalent ==
    call.op = "default_decompose" =>
        EqualUpToGlobalPhase(circuit_matrix(result, call.qubits),
                             Pow2(Len(result)), matrix(gate), 2)

\* CNOT ** 0.5 was decomposed on (q1, a).
C2_Witness ==
    /\ call.op = "default_decompose"
    /\ gate = CNotGate(Rat(1, 2))
    /\ call.qubits = <<NamedQubit(<<"q", "1">>), NamedQubit(<<"a">>)>>
    /\ Len(result) = 3

\* C3: the matrices _eigen_components returns are idempotent, mutually
\* orthogonal, and sum to the identity of the gate's dimension (4 for
\* Rot11Gate and CNotGate, 2 for RotXGate, RotYGate, RotZGate).  Stored
\* times 2: P.P = 2P, P.Q = 0, sum = 2I.
C3_Projectors ==
    call.op = "_eigen_components" =>
        LET n == IF gate.kind \in {"Rot11Gate", "CNotGate"} THEN 4 ELSE 2
        IN  /\ \A c \in 1..Len(result) :
                /\ Dim(result[c][2]) = n
                /\ MatMul(result[c][2], result[c][2])
                        = MatScale(CxInt(2), result[c][2])
            /\ \A c, d \in 1..Len(result) :
                c # d => MatMul(result[c][2], result[d][2]) = ZeroMatrix(n)
            /\ MatSum([c \in 1..Len(result) |-> result[c][2]], Len(result), n)
                    = ScaledIdentity(2, n)

\* The eigen components of a Y rotation were taken.
C3_Witness ==
    /\ call.op = "_eigen_components"
    /\ gate.kind = "RotYGate"
    /\ Len(result) = 2

\* The sum of phase(c) * P(c) over the components is unitary whatever unit
\* phases are taken: P(c).P(d)^dagger = 0 for c # d, and the P(c).P(c)^dagger
\* sum to the identity (stored times 2: to 4I).
UnitaryAtEveryPhase(comps) ==
    LET n == Dim(comps[1][2])
    IN  /\ \A c, d \in 1..Len(comps) :
                c # d => MatMul(comps[c][2], Dagger(comps[d][2])) = ZeroMatrix(n)
        /\ MatSum([c \in 1..Len(comps) |->
                        MatMul(comps[c][2], Dagger(comps[c][2]))],
                  Len(comps), n) = ScaledIdentity(4, n)

\* C4: matrix() is unitary, for H, SWAP and for the five eigen gates: the
\* matrix computed at every exponent that is a multiple of 1/4 satisfies
\* M.M^dagger = I (stored times 2: 4I), and the eigen components make the
\* sum unitary at every other exponent too.
C4_MatrixUnitary ==
    call.op = "matrix" =>
        /\ IsUnitary(result, 2)
        /\ gate.kind \in EigenKinds => UnitaryAtEveryPhase(eigen_components(gate))

\* The matrix of Y ** 0.25 was taken.
C4_Witness ==
    /\ call.op = "matrix"
    /\ gate = RotYGate(Rat(1, 4))
    /\ IsUnitary(result, 2)

\* The qubits' names joined with commas, spelled out from the front.
RECURSIVE CommaSeparated(_)
CommaSeparated(qubits) ==
    IF Len(qubits) = 0 THEN <<>>
    ELSE IF Len(qubits) = 1 THEN Head(qubits).name
    ELSE Head(qubits).name \o <<",">> \o CommaSeparated(Tail(qubits))

C6_MeasureEach ==
    call.op = "measure_each" =>
        /\ Len(result) = Len(call.qubits)
        /\ \A i \in 1..Len(result) :
            /\ result[i].gate.kind = "MeasurementGate"
            /\ result[i].qubits = <<call.qubits[i]>>
            /\ result[i].gate.key.type = "str"
            /\ result[i].gate.key.value =
                    (CASE call.key_func = "str" -> call.qubits[i].name
                       [] call.key_func = "constant" -> <<"k">>
                       [] call.key_func = "tagged" ->
                            <<"m", "_">> \o call.qubits[i].name)
            /\ IsNone(result[i].gate.invert_mask)

\* measure_each(q1, a) was called with a key function other than str.
C6_Witness ==
    /\ call.op = "measure_each"
    /\ call.qubits = <<NamedQubit(<<"q", "1">>), NamedQubit(<<"a">>)>>
    /\ call.key_func = "tagged"
    /\ Len(result) = 2

\* C7: validate_args raises ValueError exactly when invert_mask is not None
\* and longer than the qubit list; otherwise it returns normally; in both
\* cases the gate's key and invert_mask are unchanged.
C7_ValidateArgs ==
    call.op = "validate_args" =>
        LET mask == call.self.invert_mask
            tooLong == ~IsNone(mask) /\ Len(mask.value) > Len(call.qubits)
        IN  /\ tooLong => result.raised = "ValueError"
            /\ ~tooLong => result.raised = "none"
            /\ mgate = call.self

\* A gate whose mask is as long as the qubit list was validated, and passed.
C7_Witness ==
    /\ call.op = "validate_args"
    /\ ~IsNone(mgate.invert_mask)
    /\ Len(mgate.invert_mask.value) = 2
    /\ Len(call.qubits) = 2
    /\ result.raised = "none"

\* C8 (as stated): RotZGate.text_diagram_wire_symbols() returns the tuple
\* ('T',) when half_turns is 0.25, the tuple ('S',) when it is 0.5 and the
\* tuple ('Z',) for every other half_turns.
C8_WireSymbolTuples ==
    (call.op = "text_diagram_wire_symbols" /\ gate.kind = "RotZGate") =>
        /\ result.type = "tuple"
        /\ result.value =
                (IF half_turns(gate) = Rat(1, 4) THEN << <<"T">> >>
                 ELSE IF half_turns(gate) = Rat(1, 2) THEN << <<"S">> >>
                 ELSE << <<"Z">> >>)

\* C9: CZ == Rot11Gate(half_turns=1) and repr(CZ) is 'CZ'; CNOT ** 1 == CNOT
\* and repr(CNOT ** 0.5) is 'CNOT**0.5'.
C9_Constants ==
    /\ (call.op = "eq" /\ gate = CZ /\ call.other = Rot11Gate(Rat(1, 1)))
            => result = TRUE
    /\ (call.op = "repr" /\ gate = CZ)
            => result = PyStr(<<"C", "Z">>)
    /\ (call.op = "pow" /\ call.self = CNOT /\ call.power = Rat(1, 1))
            => EigenGate_eq(result, CNOT)
    /\ (call.op = "repr" /\ gate = raise_to_power(CNOT, Rat(1, 2)))
            => result = PyStr(<<"C", "N", "O", "T", "*", "*", "0", ".", "5">>)

\* CNOT ** 0.5 was taken and then printed.
C9_Witness ==
    /\ call.op = "repr"
    /\ gate = raise_to_power(CNOT, Rat(1, 2))
    /\ gate.kind = "CNotGate"
    /\ result.type = "str"

C11_MeasurementGateEquality ==
    (call.op = "__eq__" /\ call.other.kind = "MeasurementGate") =>
        LET sameFields == /\ call.self.key = call.other.key
                          /\ call.self.invert_mask = call.other.invert_mask
        IN  /\ result.eq \in BOOLEAN
            /\ result.eq <=> sameFields
            /\ result.ne <=> ~result.eq
            /\ result.eq => result.hash_self = result.hash_other

\* Two gates built separately with the same key and the same non-empty
\* mask compare equal, and two gates that differ only in the mask do not.
C11_Witness ==
    /\ call.op = "__eq__"
    /\ call.other.kind = "MeasurementGate"
    /\ ~IsNone(call.self.key)
    /\ ~IsNone(call.self.invert_mask)
    /\ Len(call.self.invert_mask.value) = 2
    /\ result.eq = TRUE
    /\ result.hash_self = result.hash_other

\* message contains the words.
Contains(message, words) == find(message, words) # -1

\* The job config run_sweep works with: JobConfig() when none is given.
GivenJobConfig ==
    IF IsNone(call.job_config)
    THEN JobConfig(None, None, None, None, None, None)
    ELSE call.job_config

\* The call of run_sweep passes the checks of the project id and of the
\* gcs_prefix.
ConfigAccepted ==
    LET project_id == effective_project_id(call.self, GivenJobConfig)
    IN  /\ ~IsNone(project_id)
        /\ gcs_prefix_pattern_match(
               effective_gcs_prefix(call.self, GivenJobConfig,
                                    project_id).value) # -1

\* C14 (as stated): run_sweep with a priority outside the accepted range
\* (below 0, or 1000 and above) fails with a ValueError whose message
\* contains 'priority must be'.
C14_BadPriorityValueError ==
    (/\ call.op = "run_sweep"
     /\ ConfigAccepted
     /\ ~(0 <= call.priority /\ call.priority < 1000)) =>
        /\ result.raised = "ValueError"
        /\ Contains(result.message, <<"priority", "must", "be">>)

\* C15 (as stated): run_sweep with a Schedule and a device fails with a
\* ValueError whose message contains 'Device'; with a program that is
\* neither a Circuit nor a Schedule it fails with a TypeError whose message
\* contains 'program'.
C15_ProgramChecks ==
    (/\ call.op = "run_sweep"
     /\ ConfigAccepted
     /\ 0 <= call.priority /\ call.priority < 1000) =>
        /\ (call.program.type = "Schedule" /\ ~IsNone(call.device)) =>
               /\ result.raised = "ValueError"
               /\ Contains(result.message, <<"Device">>)
        /\ call.program.type \notin {"Circuit", "Schedule"} =>
               /\ result.raised = "TypeError"
               /\ Contains(result.message, <<"program">>)

\* The project id the claims speak of: the job config's when it is not
\* None, otherwise the engine's default (None when neither is set).
ClaimedProjectId ==
    IF ~IsNone(GivenJobConfig.project_id)
    THEN GivenJobConfig.project_id
    ELSE call.self.default_project_id

\* C16: the project id of a run is the job config's project_id when it is
\* set and the engine's default_project_id otherwise; when neither is set
\* run_sweep raises ValueError with a message containing 'project id', and
\* it raises that error in no other case.
C16_ProjectId ==
    call.op = "run_sweep" =>
        /\ IsNone(ClaimedProjectId) =>
               /\ result.raised = "ValueError"
               /\ Contains(result.message, <<"project", "id">>)
        /\ ~IsNone(ClaimedProjectId) =>
               /\ ~(/\ result.raised = "ValueError"
                    /\ Contains(result.message, <<"project", "id">>))
               /\ result.raised = "none" =>
                      /\ result.value.job_config.project_id = ClaimedProjectId
                      /\ requests[1].request.parent =
                             PyStr(<<"p", "r", "o", "j", "e", "c", "t", "s", "/">>
                                       \o ClaimedProjectId.value)

\* A run whose job config and engine both name a project: the job config's
\* wins.
C16_Witness ==
    /\ call.op = "run_sweep"
    /\ ~IsNone(call.job_config)
    /\ ~IsNone(call.job_config.project_id)
    /\ ~IsNone(call.self.default_project_id)
    /\ call.job_config.project_id # call.self.default_project_id
    /\ result.raised = "none"
    /\ result.value.job_config.project_id = call.job_config.project_id

\* The part of s after its last ':', the whole of s when it has none.
AfterLastColon(s) ==
    LET k == CHOOSE k \in 0..Len(s) :
                 /\ k = 0 \/ s[k] = ":"
                 /\ \A i \in (k + 1)..Len(s) : s[i] # ":"
    IN  SubSeq(s, k + 1, Len(s))

\* The prefix the claims speak of, before the final slash is seen to: the
\* job config's if set, else the engine's if set, else 'gs://gqe-<p>/'.  A
\* prefix is set when it is neither None nor ''.
ClaimedPrefixChoice ==
    IF ~IsNone(GivenJobConfig.gcs_prefix)
       /\ GivenJobConfig.gcs_prefix.value # <<>>
    THEN GivenJobConfig.gcs_prefix.value
    ELSE IF ~IsNone(call.self.gcs_prefix) /\ call.self.gcs_prefix.value # <<>>
    THEN call.self.gcs_prefix.value
    ELSE <<"g", "s", ":", "/", "/", "g", "q", "e", "-">>
             \o AfterLastColon(ClaimedProjectId.value) \o <<"/">>

ClaimedPrefix ==
    IF ClaimedPrefixChoice[Len(ClaimedPrefixChoice)] = "/"
    THEN ClaimedPrefixChoice
    ELSE ClaimedPrefixChoice \o <<"/">>

\* C17: the gcs_prefix of a run is the job config's if set, else the
\* engine's default if set, else 'gs://gqe-<p>/' with <p> the part of the
\* project id after its last ':'; a prefix that does not end with '/' gets
\* one '/' appended, one that does is left as it is.
C17_GcsPrefix ==
    (call.op = "run_sweep" /\ result.raised = "none") =>
        result.value.job_config.gcs_prefix = PyStr(ClaimedPrefix)

\* A run on an engine with the default prefix 'gs://d' and a job config
\* without prefix: the prefix of the run is 'gs://d/'.
C17_Witness ==
    /\ call.op = "run_sweep"
    /\ result.raised = "none"
    /\ ~IsNone(call.job_config)
    /\ IsNone(call.job_config.gcs_prefix)
    /\ call.self.gcs_prefix = PyStr(<<"g", "s", ":", "/", "/", "d">>)
    /\ result.value.job_config.gcs_prefix = PyStr(<<"g", "s", ":", "/", "/", "d", "/">>)

\* C18 (as stated): when the gcs_prefix of a run is not of the form
\* 'gs://<bucket name and optional object prefix>/' (here: it does not
\* start with 'gs://'), run_sweep fails with a ValueError whose message
\* contains 'gcs_prefix must be of the form'.
C18_BadPrefixValueError ==
    (/\ call.op = "run_sweep"
     /\ ~IsNone(ClaimedProjectId)
     /\ SubSeq(ClaimedPrefix, 1, 5) # <<"g", "s", ":", "/", "/">>) =>
        /\ result.raised = "ValueError"
        /\ Contains(result.message,
                    <<"gcs_prefix", "must", "be", "of", "the", "form">>)

\* s is 'prog-' followed by one or more characters of [0-9A-Z].
IsGeneratedProgramId(s) ==
    /\ Len(s) > 5
    /\ SubSeq(s, 1, 5) = <<"p", "r", "o", "g", "-">>
    /\ \A i \in 6..Len(s) : s[i] \in ascii_uppercase \cup digits

\* A field of the job config is given when it is neither None nor ''.
Given(v) == ~IsNone(v) /\ v.value # <<>>

\* C19: the job config of the EngineJob a run returns has the given
\* program_id or else 'prog-' and characters of [0-9A-Z]; the given job_id
\* or else 'job-0'; the given gcs_program or else
\* '<gcs_prefix>programs/<program_id>/<program_id>'; the given gcs_results
\* or else '<gcs_prefix>programs/<program_id>/jobs/<job_id>'; gcs_prefix,
\* program_id and job_id being those of the same returned config.
C19_ImpliedJobConfig ==
    (call.op = "run_sweep" /\ result.raised = "none") =>
        LET given == GivenJobConfig
            config == result.value.job_config
        IN  /\ IF Given(given.program_id)
               THEN config.program_id = given.program_id
               ELSE IsGeneratedProgramId(config.program_id.value)
            /\ IF Given(given.job_id)
               THEN config.job_id = given.job_id
               ELSE config.job_id = PyStr(<<"j", "o", "b", "-", "0">>)
            /\ config.gcs_prefix.value[Len(config.gcs_prefix.value)] = "/"
            /\ IF Given(given.gcs_program)
               THEN config.gcs_program = given.gcs_program
               ELSE config.gcs_program =
                        PyStr(config.gcs_prefix.value
                                  \o <<"p", "r", "o", "g", "r", "a", "m", "s", "/">>
                                  \o config.program_id.value \o <<"/">>
                                  \o config.program_id.value)
            /\ IF Given(given.gcs_results)
               THEN config.gcs_results = given.gcs_results
               ELSE config.gcs_results =
                        PyStr(config.gcs_prefix.value
                                  \o <<"p", "r", "o", "g", "r", "a", "m", "s", "/">>
                                  \o config.program_id.value
                                  \o <<"/", "j", "o", "b", "s", "/">>
                                  \o config.job_id.value)

\* A run with JobConfig(project_id='o:j') alone: every other field of the
\* returned config is derived.
C19_Witness ==
    /\ call.op = "run_sweep"
    /\ call.job_config =
           JobConfig(PyStr(<<"o", ":", "j">>), None, None, None, None, None)
    /\ IsNone(call.self.gcs_prefix)
    /\ result.raised = "none"
    /\ result.value.job_config.gcs_results =
           PyStr(<<"g", "s", ":", "/", "/", "g", "q", "e", "-", "j", "/", "p", "r", "o", "g", "r", "a", "m", "s", "/">>
                     \o result.value.job_config.program_id.value
                     \o <<"/", "j", "o", "b", "s", "/", "j", "o", "b", "-", "0">>)

\* The number of requests of the method in the log.
RECURSIVE SentCount(_, _)
SentCount(log, method) ==
    IF log = <<>> THEN 0
    ELSE (IF Head(log).request.method = method THEN Head(log).times ELSE 0)
             + SentCount(Tail(log), method)

\* A call of results() has ended, by return or by raise.
ResultsEnded == call.op = "results" /\ pc = "idle"

\* C12 (as stated): results() neither returns nor raises before the job has
\* been observed in a terminal state: whenever a call of results() has
\* ended, the state last observed is SUCCESS, FAILURE or CANCELLED.
C12_BlocksUntilTerminal ==
    ResultsEnded => job._job.state \in TERMINAL_STATES

\* C13: a call of results() that finds no stored results and ends its
\* polling with a state other than SUCCESS raises RuntimeError with a
\* message containing 'It is in state <state>', sends no getResult request
\* and stores no results; one that ends its polling with SUCCESS sends one
\* getResult request for the job's resource name, after every get, and
\* returns the list built from the response, which it also stores.
C13_ResultsOutcome ==
    (ResultsEnded /\ ~Truthy(call.self._results)) =>
        IF job._job.state # "SUCCESS"
        THEN /\ result.raised = "RuntimeError"
             /\ Contains(result.message,
                         <<"It", "is", "in", "state", job._job.state>>)
             /\ SentCount(requests, "jobs.getResult") = 0
             /\ job._results = call.self._results
        ELSE /\ result.raised = "none"
             /\ result.value \in
                    {PyList(trial_results(r)) : r \in SweepResults}
             /\ job._results = result.value
             /\ SentCount(requests, "jobs.getResult") = 1
             /\ requests[Len(requests)] =
                    [request |-> GetJobResult(job.job_resource_name),
                     times |-> 1]

\* A job created READY, seen RUNNING and then FAILURE: results() raises
\* after three gets.
C13_Witness ==
    /\ ResultsEnded
    /\ call.self._job.state = "READY"
    /\ job._job.state = "FAILURE"
    /\ result.raised = "RuntimeError"
    /\ SentCount(requests, "jobs.get") = 3
    /\ IsNone(job._results)

\* The patch requests in the log.
Patches(log) ==
    {i \in 1..Len(log) :
        log[i].request.method \in {"programs.patch", "jobs.patch"}}

\* The labels of the resource fetched by the call, {} when it has none.
FetchedLabels ==
    IF "labels" \in DOMAIN call.fetched
    THEN call.fetched["labels"]
    ELSE EmptyDict

\* The labels the claim computes for the call: for add, the fetched labels
\* with the given ones put over them; for remove, the fetched labels whose
\* key is not in the given list; for set, the given labels.
ClaimedLabels ==
    CASE call.op = "add_labels" ->
             [k \in DOMAIN FetchedLabels \cup DOMAIN call.labels |->
                 IF k \in DOMAIN call.labels
                 THEN call.labels[k]
                 ELSE FetchedLabels[k]]
      [] call.op = "remove_labels" ->
             [k \in {k \in DOMAIN FetchedLabels :
                        \A i \in 1..Len(call.label_keys) :
                            call.label_keys[i] # k} |->
                 FetchedLabels[k]]
      [] call.op = "set_labels" -> call.labels

\* C20: for programs and jobs alike, add_*_labels patches with the fetched
\* labels updated by the given ones, remove_*_labels patches with the
\* fetched labels without the given keys, neither sends a patch when the
\* labels so computed equal the fetched ones, and set_*_labels always
\* patches with exactly the given labels; no call sends two patches.
C20_LabelPatches ==
    call.op \in {"add_labels", "remove_labels", "set_labels"} =>
        LET patches == Patches(requests)
            expected == call.op = "set_labels"
                            \/ ClaimedLabels # FetchedLabels
        IN  /\ expected =>
                   /\ Cardinality(patches) = 1
                   /\ \A i \in patches :
                          /\ requests[i].times = 1
                          /\ requests[i].request.body.labels = ClaimedLabels
                          /\ requests[i].request.method =
                                 IF call.name = AProgramName
                                 THEN "programs.patch"
                                 ELSE "jobs.patch"
            /\ ~expected => patches = {}

\* add_job_labels on a job with labels {a: 1, b: 1} and the labels {a: 2}:
\* the patch carries {a: 2, b: 1}.
C20_Witness ==
    /\ call.op = "add_labels"
    /\ call.name = AJobName
    /\ FetchedLabels = [k \in {"a", "b"} |-> "1"]
    /\ call.labels = [k \in {"a"} |-> "2"]
    /\ Len(requests) = 2
    /\ requests[2].request.body.labels = ("a" :> "2") @@ ("b" :> "1")

\* C21: every label patch is preceded, in the same call, by exactly one get
\* of the same resource (and the call sends no other get), carries the
\* labelFingerprint of the fetched resource, '' when it has none, names the
\* resource in the request and in the body, and has updateMask 'labels'.
C21_PatchAfterGet ==
    call.op \in {"add_labels", "remove_labels", "set_labels"} =>
        \A i \in Patches(requests) :
            LET patch == requests[i].request
                get == IF patch.method = "programs.patch"
                       THEN "programs.get"
                       ELSE "jobs.get"
                gets == {j \in 1..Len(requests) :
                            requests[j].request.method
                                \in {"programs.get", "jobs.get"}}
            IN  /\ Cardinality(gets) = 1
                /\ \A j \in gets :
                       /\ j < i
                       /\ requests[j].times = 1
                       /\ requests[j].request.method = get
                       /\ requests[j].request.name = call.name
                /\ patch.body.labelFingerprint =
                       (IF "labelFingerprint" \in DOMAIN call.fetched
                        THEN call.fetched["labelFingerprint"]
                        ELSE "")
                /\ patch.name = call.name
                /\ patch.body.name = call.name
                /\ patch.updateMask = "labels"

\* set_program_labels on a program fetched with the fingerprint 'abcdef':
\* a get, then a patch carrying 'abcdef'.
C21_Witness ==
    /\ call.op = "set_labels"
    /\ call.name = AProgramName
    /\ "labelFingerprint" \in DOMAIN call.fetched
    /\ Len(requests) = 2
    /\ requests[1].request.method = "programs.get"
    /\ requests[2].request.method = "programs.patch"
    /\ requests[2].request.body.labelFingerprint = "abcdef"

\* C22: a run_sweep that returns has sent exactly two requests, each once:
\* first the program-create, under parent 'projects/<project_id>' and with
\* name 'projects/<project_id>/programs/<program_id>'; then the job-create,
\* whose parent is the name the service returned for the program and whose
\* name is '<that name>/jobs/<job_id>'; the EngineJob's job_resource_name
\* is the name the service returned for the job.
C22_CreateRequests ==
    (call.op = "run_sweep" /\ result.raised = "none") =>
        LET config == result.value.job_config
            project == <<"p", "r", "o", "j", "e", "c", "t", "s", "/">>
                           \o ClaimedProjectId.value
        IN  /\ Len(requests) = 2
            /\ requests[1].times = 1
            /\ requests[2].times = 1
            /\ requests[1].request.method = "programs.create"
            /\ requests[1].request.parent = PyStr(project)
            /\ requests[1].request.body.name =
                   PyStr(project \o <<"/", "p", "r", "o", "g", "r", "a", "m", "s", "/">>
                             \o config.program_id.value)
            /\ requests[2].request.method = "jobs.create"
            /\ requests[2].request.parent = requests[1].response.name
            /\ requests[2].request.body.name =
                   PyStr(requests[1].response.name.value
                             \o <<"/", "j", "o", "b", "s", "/">>
                             \o config.job_id.value)
            /\ result.value.job_resource_name = requests[2].response.name

\* A run in which the service names the program and the job its own way:
\* the job is created under the returned program name, and the EngineJob
\* carries the returned job name.
C22_Witness ==
    /\ call.op = "run_sweep"
    /\ result.raised = "none"
    /\ requests[1].response.name # requests[1].request.body.name
    /\ requests[2].request.parent = requests[1].response.name
    /\ requests[2].response.name # requests[2].request.body.name
    /\ result.value.job_resource_name = requests[2].response.name

\* C28: a run_sweep that raises, whichever check fails, has sent no
\* program-create and no job-create request (it has sent nothing).
C28_ChecksBeforeRequests ==
    (call.op = "run_sweep" /\ result.raised # "none") =>
        /\ SentCount(requests, "programs.create") = 0
        /\ SentCount(requests, "jobs.create") = 0
        /\ requests = <<>>
        /\ IsNone(job)

\* The last of the checks fails, with every earlier one passed: a Schedule
\* on Foxtail with operations off the grid, no device argument, an accepted
\* priority and an accepted job config; nothing has been sent.
C28_Witness ==
    /\ call.op = "run_sweep"
    /\ ConfigAccepted
    /\ 0 <= call.priority /\ call.priority < 1000
    /\ call.program = Schedule(Foxtail, FALSE)
    /\ IsNone(call.device)
    /\ result.raised = "ValueError"
    /\ requests = <<>>

C23_ResultsFetchedOnce ==
    (ResultsEnded /\ ~IsNone(call.self._results)) =>
        /\ requests = <<>>
        /\ result = ReturnedValue(call.self._results)
        /\ job = call.self

\* C26: status() on a job whose stored state is terminal sends nothing and
\* returns that state; on any other job it sends exactly one get-job for
\* the job's resource name and returns the state of the response, which it
\* stores.  results() on a job whose stored state is terminal sends no
\* get-job.  cancel() sends exactly one cancel request for the job's
\* resource name and leaves the job as it was.
C26_StatusAndCancel ==
    /\ call.op = "status" =>
           IF call.self._job.state \in TERMINAL_STATES
           THEN /\ requests = <<>>
                /\ result = ReturnedValue(call.self._job.state)
                /\ job = call.self
           ELSE /\ requests =
                       <<[request |-> GetJob(call.self.job_resource_name),
                          times |-> 1]>>
                /\ result = ReturnedValue(job._job.state)
                /\ job._results = call.self._results
    /\ (call.op = "results" /\ call.self._job.state \in TERMINAL_STATES) =>
           /\ SentCount(requests, "jobs.get") = 0
           /\ job._job = call.self._job
    /\ call.op = "cancel" =>
           /\ requests =
                  <<[request |-> CancelJob(call.self.job_resource_name),
                     times |-> 1]>>
           /\ job = call.self

\* status() on a job stored as RUNNING: one get-job, answered CANCELLED,
\* which is returned and stored.
C26_Witness ==
    /\ call.op = "status"
    /\ call.self._job.state = "RUNNING"
    /\ SentCount(requests, "jobs.get") = 1
    /\ result = ReturnedValue("CANCELLED")
    /\ job._job.state = "CANCELLED"

BareName(kind) ==
    CASE kind = "RotXGate" -> <<"X">>
      [] kind = "RotYGate" -> <<"Y">>
      [] kind = "RotZGate" -> <<"Z">>
      [] kind = "Rot11Gate" -> <<"C", "Z">>
      [] kind = "CNotGate" -> <<"C", "N", "O", "T">>

\* C30 (as stated): repr of a RotXGate, RotYGate, RotZGate, Rot11Gate or
\* CNotGate is the bare name exactly when half_turns equals 1, and
\* '<name>**<repr(half_turns)>' for every other exponent; in particular the
\* repr of a gate with another exponent is never the bare name.
C30_ReprByExponent ==
    (call.op = "repr" /\ gate.kind \in EigenKinds) =>
        /\ result = PyStr(IF half_turns(gate) = Rat(1, 1)
                          THEN BareName(gate.kind)
                          ELSE BareName(gate.kind) \o <<"*", "*">>
                                   \o FloatRepr(half_turns(gate)))
        /\ (result = PyStr(BareName(gate.kind)))
               <=> (half_turns(gate) = Rat(1, 1))

\* The line without its trailing whitespace: its longest prefix that does
\* not end in whitespace.
WithoutTrailingWhitespace(line) ==
    LET n == CHOOSE n \in 0..Len(line) :
                 /\ n = 0 \/ line[n] \notin Whitespace
                 /\ \A k \in (n + 1)..Len(line) : line[k] \in Whitespace
    IN  SubSeq(line, 1, n)

\* The lines of e occur among the lines of a in the same order, each line
\* of a standing for at most one line of e.
OccurInOrder(e, a) ==
    \E at \in [1..Len(e) -> 1..Len(a)] :
        /\ \A k \in 1..Len(e) : a[at[k]] = e[k]
        /\ \A k \in 1..Len(e), l \in 1..Len(e) : k < l => at[k] < at[l]

\* C24: assert_expected_lines_present_in_order returns normally exactly
\* when the expected lines without their trailing whitespace occur in
\* order among the actual lines without theirs; otherwise it raises
\* AssertionError 'Missing expected line: <line>' with the first expected
\* line that cannot be placed, the ones before it being placed.
C24_LinesPresentInOrder ==
    call.op = "assert_expected_lines_present_in_order" =>
        LET e == [k \in 1..Len(call.expected_lines) |->
                     WithoutTrailingWhitespace(call.expected_lines[k])]
            a == [k \in 1..Len(call.actual_lines) |->
                     WithoutTrailingWhitespace(call.actual_lines[k])]
            unplaced == {k \in 1..Len(e) : ~OccurInOrder(SubSeq(e, 1, k), a)}
        IN  IF OccurInOrder(e, a)
            THEN result = Returned
            ELSE /\ result.raised = "AssertionError"
                 /\ result.message =
                        <<"M", "i", "s", "s", "i", "n", "g", " ", "e", "x", "p", "e", "c", "t", "e", "d", " ", "l", "i", "n", "e", ":", " ">>
                            \o e[CHOOSE k \in unplaced :
                                     \A l \in unplaced : k <= l]

\* Two expected lines found among three actual lines, the first one up to
\* trailing whitespace only, with an actual line between them that is
\* neither.
C24_Witness ==
    /\ call.op = "assert_expected_lines_present_in_order"
    /\ call.expected_lines = <<<<"a", " ">>, <<"b">>>>
    /\ call.actual_lines = <<<<"a">>, <<" ", "a">>, <<"b">>>>
    /\ result = Returned

\* '# prints' and nothing but whitespace after it.
IsStartLine(line) ==
    /\ Len(line) >= 8
    /\ SubSeq(line, 1, 8) = <<"#", " ", "p", "r", "i", "n", "t", "s">>
    /\ \A k \in 9..Len(line) : line[k] \in Whitespace

\* A line that starts with '# ' or is exactly '#'.
IsOutputLine(line) ==
    \/ line = <<"#">>
    \/ Len(line) >= 2 /\ line[1] = "#" /\ line[2] = " "

\* The lines of expected output: those of the pattern that follow a start
\* line with only lines of the pattern in between.
ExpectedOutputAt(lines) ==
    {i \in 1..Len(lines) :
        /\ IsOutputLine(lines[i])
        /\ \E j \in 1..(i - 1) :
               /\ IsStartLine(lines[j])
               /\ \A k \in (j + 1)..i : IsOutputLine(lines[k])}

\* C25: find_expected_outputs returns, in order, exactly the lines of
\* expected output without their first two characters: the lines that
\* start with '# ' or are '#' and follow a line '# prints' (with nothing
\* but whitespace after it) with only such lines in between.  A snippet
\* whose '# prints' lines all have words after them has no expected output.
C25_ExpectedOutputs ==
    call.op = "find_expected_outputs" =>
        LET lines == split(call.snippet, <<"\n">>)
            at == SelectSeq([i \in 1..Len(lines) |-> i],
                            LAMBDA i : i \in ExpectedOutputAt(lines))
        IN  /\ result =
                ReturnedValue(PyList(
                    [k \in 1..Len(at) |->
                        PyStr(SubSeq(lines[at[k]], 3, Len(lines[at[k]])))]))
            /\ (\A i \in 1..Len(lines) : ~IsStartLine(lines[i])) =>
                   result = ReturnedValue(PyList(<<>>))

\* '# prints', an indented line of output, a line of code that ends the
\* block, and a line of the pattern that is no longer output.
C25_Witness ==
    /\ call.op = "find_expected_outputs"
    /\ split(call.snippet, <<"\n">>) = <<<<"#", " ", "p", "r", "i", "n", "t", "s">>, <<"#", " ", " ", "a">>, <<"a">>, <<"#", " ", "a">>>>
    /\ result = ReturnedValue(PyList(<<PyStr(<<" ", "a">>)>>))

====
